---- MODULE Spec2Model ----
(***************************************************************************)
(* A model of the llbuild target execution engine (src/lib/llbuild.js).    *)
(*                                                                         *)
(* JavaScript values are records [k, n, e]: k is the kind of the value, n  *)
(* its text (the string, the function's identifier, the number literal)    *)
(* and e the elements of an array.  A promise the engine creates is a node *)
(* of the variable nodes, addressed by the path of array indices (as in    *)
(* JavaScript, counted from 0) that leads from the requested target to it. *)
(* Each promise reaction (a function passed to .then) is one action.       *)
(***************************************************************************)
EXTENDS Integers, Sequences, FiniteSets, Bags, TLC

VARIABLES
    targets,    \* this.targets: the registry, a function from own keys to values
    listeners,  \* this.emitter: event kind -> sequence of registered listeners
    call,       \* the executeTarget invocation and the promise it returned
    nodes,      \* the promises created below executeAnyTarget, by path
    emitted,    \* bag of the event records handed to this.emitter.emit
    calls,      \* bag of the calls of listeners: which listener, which record
    options,    \* this.options: the effective options of the builder
    supplied,   \* the options object the caller handed to the constructor
    argv,       \* process.argv
    stdout,     \* what console.log has written, in order
    fs,         \* the file system: the set of the directories that exist
    proc,       \* the helper operation in flight and the promise it returned
    other       \* a second executeTarget call in flight: its call and nodes

\* The state outside the engine: configuration, process and file system.
env == <<options, supplied, argv, stdout, fs, proc, other>>

vars == <<targets, listeners, call, nodes, emitted, calls, env>>

-----------------------------------------------------------------------------
(* Bounds *)

\* The longest generated array target (elements, the mode marker included).
MaxLen == 3

-----------------------------------------------------------------------------
(* JavaScript values *)

Val(k, n, e) == [k |-> k, n |-> n, e |-> e]

Null      == Val("null", "", <<>>)
Undefined == Val("undefined", "", <<>>)
True      == Val("boolean", "true", <<>>)
False     == Val("boolean", "false", <<>>)
Num(n)    == Val("number", n, <<>>)
Str(s)    == Val("string", s, <<>>)
Fn(f)     == Val("function", f, <<>>)
Obj       == Val("object", "", <<>>)
Arr(e)    == Val("array", "", e)

\* !v
Falsy(v) ==
    \/ v.k \in {"null", "undefined"}
    \/ v = False
    \/ v = Num("0")
    \/ v = Str("")

\* v.constructor, for the values that have one
Constructor(v) ==
    CASE v.k = "boolean"  -> "Boolean"
      [] v.k = "number"   -> "Number"
      [] v.k = "string"   -> "String"
      [] v.k = "function" -> "Function"
      [] v.k = "array"    -> "Array"
      [] v.k = "object"   -> "Object"
      [] OTHER            -> "TypeError"

\* typeof(v)
Typeof(v) ==
    CASE v.k = "null"  -> "object"
      [] v.k = "array" -> "object"
      [] OTHER         -> v.k

\* targetArray[i] and targetArray.length, i counted from 0
Elem(arr, i) == arr.e[i + 1]
Length(arr)  == Len(arr.e)

-----------------------------------------------------------------------------
(* Errors *)

\* An error value: its message and, for an error an Action produced, the
\* path of the execution that produced it (the identity of the error).
Err(msg, src) == [msg |-> msg, src |-> src]
NoErr == Err("", <<>>)

\* Mutant of UnsupportedError: the message names the constructor of the value.
UnsupportedError_Constructor(v) ==
    [msg |-> "Unsupported target type: " \o Constructor(v), src |-> <<>>]

NotAStringError      == Err("Target name is expected to be a string.", <<>>)
DoesNotExistError(n) == Err("Target does not exist: " \o n, <<>>)
UnsupportedError(v)  == Err("Unsupported target type: " \o Typeof(v), <<>>)
ActionError(p)       == Err("action error", p)
ListenerError(kind)  == Err("listener error: " \o kind, <<>>)

-----------------------------------------------------------------------------
(* The builder: registry and notification bus *)

Self == "builder"

Contexts == {"undefined", "ctx"}

EventKinds == {"buildStarted", "buildComplete", "buildFailed",
               "targetExecutionStarted", "targetExecutionCompleted",
               "targetExecutionFailed", "consoleOutput"}

\* The target runners that print: fnTest1 is
\* function(b) { b.print('test1'); return Promise.resolve(); }
Printed == "fnTest1" :> "test1" @@ "fnTest2" :> "test2"

\* Mutant of Behaviours: the value a target runner returns is used as a
\* promise, so that returning nothing fails like a throw.
Behaviours_PromiseRequired(f) ==
    IF f \in {"Object", "fnReturn", "fnThrow"} THEN {"throw"}
    ELSE IF f \in DOMAIN Printed THEN {"print"}
    ELSE {"throw", "promise"}

\* What a target runner may do when called: throw, return a value that is
\* not a promise, or return a promise (settled later by ActionSettle).  The
\* function Object returns, fnReturn is function() { objs.push('fn'); }, which
\* returns nothing, fnThrow is function() { throw new Error(..) }, and the
\* runners of Printed print and return a resolved promise.
Behaviours(f) ==
    IF f \in {"Object", "fnReturn"} THEN {"return"}
    ELSE IF f = "fnThrow" THEN {"throw"}
    ELSE IF f \in DOMAIN Printed THEN {"print"}
    ELSE {"throw", "return", "promise"}

\* The properties every object literal inherits from Object.prototype that
\* the model keeps: this.targets[name] finds them when name is no own key.
ObjectPrototype ==
    "constructor" :> Fn("Object") @@ "__proto__" :> Obj

\* this.targets[targetName]
Lookup(reg, name) ==
    IF name \in DOMAIN reg THEN reg[name]
    ELSE IF name \in DOMAIN ObjectPrototype THEN ObjectPrototype[name]
    ELSE Undefined

-----------------------------------------------------------------------------
(* Promises *)

\* A promise of the engine.  kind: "settled" is a promise made by
\* Promise.resolve() or Promise.reject(), "runner" the chain built by
\* executeTargetRunner, "serial" the chain built by executeArrayTargetSerially
\* and "parallel" the promise of Promise.all.  st/err: the state of the promise.
\* target, tname, ctx: the arguments of the call that made it.  pc, out,
\* outErr: the position of a runner chain and the outcome of its callback.
\* args: the arguments the callback was called with.  hist: what happened in
\* this execution, in order.  next: the element a serial chain is waiting
\* for.  fr: the index of the first element of a Promise.all that rejected
\* (-1: none), the head of its reaction queue.
Node(kind, st, err, target, tname, ctx) ==
    [kind |-> kind, st |-> st, err |-> err, target |-> target, tname |-> tname,
     ctx |-> ctx, pc |-> IF kind = "runner" THEN "emitStarted" ELSE "none",
     out |-> "none", outErr |-> NoErr, args |-> <<>>, hist |-> <<>>,
     next |-> IF kind = "serial" THEN 1 ELSE 0, fr |-> -1]

Parent(p) == SubSeq(p, 1, Len(p) - 1)
Last(p)   == p[Len(p)]

\* The promises of the elements of the array whose promise is at path p.
ChildrenOf(ns, p) ==
    {q \in DOMAIN ns : Len(q) = Len(p) + 1 /\ SubSeq(q, 1, Len(p)) = p}

\* The union of a family of maps with disjoint domains.
Merge(subs) ==
    LET dom == UNION {DOMAIN subs[i] : i \in DOMAIN subs}
    IN  [q \in dom |-> subs[CHOOSE i \in DOMAIN subs : q \in DOMAIN subs[i]][q]]

\* Settle the promise at p; a Promise.all waiting for it queues the
\* reaction, so the first element to reject is the one it will report.
Settle(ns, p, st, err) ==
    LET ns1 == [ns EXCEPT ![p].st = st, ![p].err = err]
    IN  IF /\ st = "rejected"
           /\ Len(p) > 0
           /\ ns[Parent(p)].kind = "parallel"
           /\ ns[Parent(p)].fr = -1
        THEN [ns1 EXCEPT ![Parent(p)].fr = Last(p)]
        ELSE ns1

-----------------------------------------------------------------------------
(* The engine: the synchronous part of each method.  Each returns the      *)
(* promises it created, the promise it returns being the one at path p.    *)

RECURSIVE ExecuteAnyTarget(_, _, _, _)
RECURSIVE ExecuteArrayTarget(_, _, _, _)
RECURSIVE ExecuteArrayTargetSerially(_, _, _, _)
RECURSIVE ExecuteArrayTargetInParallel(_, _, _, _)
RECURSIVE ExecuteTargetWithName(_, _, _)

\* Mutant of ExecuteTargetWithName: the elements below a resolved name keep
\* the name executeTarget was called with as their reporting name.
ExecuteTargetWithName_TopLevelName(targetName, context, p) ==
    LET target == Lookup(targets, targetName)
    IN  IF target.k \in {"null", "undefined"}
        THEN p :> Node("settled", "rejected", DoesNotExistError(targetName),
                       Str(targetName), targetName, context)
        ELSE ExecuteAnyTarget(target, call.arg.n, context, p)

\* Mutant of ExecuteArrayTargetInParallel: the array is mapped from index 1,
\* as if index 0 were a mode marker here too.
ExecuteArrayTargetInParallel_SkipFirst(targetArray, targetName, context, p) ==
    LET subs == [i \in 1 .. Length(targetArray) - 1 |->
                   ExecuteAnyTarget(Elem(targetArray, i), targetName, context,
                                    Append(p, i))]
    IN  (p :> Node("parallel", "pending", NoErr, targetArray, targetName, context))
        @@ Merge(subs)

\* Mutant of ExecuteArrayTargetInParallel: the elements are executed under
\* no name.
ExecuteArrayTargetInParallel_Anonymous(targetArray, targetName, context, p) ==
    LET subs == [i \in 0 .. Length(targetArray) - 1 |->
                   ExecuteAnyTarget(Elem(targetArray, i), "", context,
                                    Append(p, i))]
        rej  == {i \in DOMAIN subs : subs[i][Append(p, i)].st = "rejected"}
        first == IF rej = {} THEN -1
                 ELSE CHOOSE i \in rej : \A j \in rej : i <= j
    IN  (p :> [Node("parallel", "pending", NoErr, targetArray, targetName, context)
                 EXCEPT !.fr = first])
        @@ Merge(subs)

\* Mutant of ExecuteArrayTargetSerially: every element is started at once,
\* the chain only collects the results.
ExecuteArrayTargetSerially_Eager(targetArray, targetName, context, p) ==
    IF Length(targetArray) < 2
    THEN p :> Node("settled", "resolved", NoErr, targetArray, targetName, context)
    ELSE (p :> Node("serial", "pending", NoErr, targetArray, targetName, context))
         @@ Merge([i \in 1 .. Length(targetArray) - 1 |->
                     ExecuteAnyTarget(Elem(targetArray, i), targetName, context,
                                      Append(p, i))])

\* Mutant of ExecuteAnyTarget: the test for a function is missing, so every
\* value that is neither absent, an array nor a string is run as a callback.
ExecuteAnyTarget_RunAnything(target, targetName, context, p) ==
    IF target.k \in {"null", "undefined", "boolean"}
    THEN p :> Node("settled", "resolved", NoErr, target, targetName, context)
    ELSE IF Constructor(target) = "Array"
    THEN ExecuteArrayTarget(target, targetName, context, p)
    ELSE IF Constructor(target) = "String"
    THEN ExecuteTargetWithName(target.n, context, p)
    ELSE p :> Node("runner", "pending", NoErr, target, targetName, context)

\* Mutant of ExecuteAnyTarget: false is missing from the first test, so it
\* falls through to the unsupported values.
ExecuteAnyTarget_FalseUnsupported(target, targetName, context, p) ==
    IF target.k \in {"null", "undefined"} \/ target = True
    THEN p :> Node("settled", "resolved", NoErr, target, targetName, context)
    ELSE IF Constructor(target) = "Array"
    THEN ExecuteArrayTarget(target, targetName, context, p)
    ELSE IF Constructor(target) = "String"
    THEN ExecuteTargetWithName(target.n, context, p)
    ELSE IF Constructor(target) = "Function"
    THEN p :> Node("runner", "pending", NoErr, target, targetName, context)
    ELSE p :> Node("settled", "rejected", UnsupportedError(target),
                   target, targetName, context)

\* Mutant of ExecuteArrayTarget: true anywhere in the array selects the
\* serial mode.
ExecuteArrayTarget_AnyTrue(targetArray, targetName, context, p) ==
    IF Length(targetArray) = 0
    THEN p :> Node("settled", "resolved", NoErr, targetArray, targetName, context)
    ELSE IF \E i \in 0 .. Length(targetArray) - 1 : Elem(targetArray, i) = True
    THEN ExecuteArrayTargetSerially(targetArray, targetName, context, p)
    ELSE ExecuteArrayTargetInParallel(targetArray, targetName, context, p)

\* Mutant of ExecuteArrayTargetSerially: the chain starts at index 0, the
\* marker is executed as an element.
ExecuteArrayTargetSerially_FromMarker(targetArray, targetName, context, p) ==
    ([q \in {p} |-> [Node("serial", "pending", NoErr, targetArray, targetName, context)
                       EXCEPT !.next = 0]])
    @@ ExecuteAnyTarget(Elem(targetArray, 0), targetName, context, Append(p, 0))

\* executeTargetRunner: the chain is created, nothing of it has run yet.
ExecuteTargetRunner(targetRunner, targetName, context, p) ==
    p :> Node("runner", "pending", NoErr, targetRunner, targetName, context)

\* Mutant of ExecuteTargetWithName: a name whose callback has been started
\* in this execution is not executed again; the promise of its second
\* occurrence is resolved at once.
ExecuteTargetWithName_Once(targetName, context, p) ==
    LET target == Lookup(targets, targetName)
    IN  IF target.k \in {"null", "undefined"}
        THEN p :> Node("settled", "rejected", DoesNotExistError(targetName),
                       Str(targetName), targetName, context)
        ELSE IF \E q \in DOMAIN nodes : nodes[q].kind = "runner"
                                         /\ nodes[q].tname = targetName
        THEN p :> Node("settled", "resolved", NoErr,
                       Str(targetName), targetName, context)
        ELSE ExecuteAnyTarget(target, targetName, context, p)

\* Mutant of ExecuteTargetWithName: for a name that is bound to nothing the
\* promise returned is one that never settles.
ExecuteTargetWithName_NeverSettles(targetName, context, p) ==
    LET target == Lookup(targets, targetName)
    IN  IF target.k \in {"null", "undefined"}
        THEN p :> Node("settled", "pending", NoErr,
                       Str(targetName), targetName, context)
        ELSE ExecuteAnyTarget(target, targetName, context, p)

ExecuteTargetWithName(targetName, context, p) ==
    LET target == Lookup(targets, targetName)
    IN  IF target.k \in {"null", "undefined"}
        THEN p :> Node("settled", "rejected", DoesNotExistError(targetName),
                       Str(targetName), targetName, context)
        ELSE ExecuteAnyTarget(target, targetName, context, p)

ExecuteArrayTargetInParallel(targetArray, targetName, context, p) ==
    LET subs == [i \in 0 .. Length(targetArray) - 1 |->
                   ExecuteAnyTarget(Elem(targetArray, i), targetName, context,
                                    Append(p, i))]
        rej  == {i \in DOMAIN subs : subs[i][Append(p, i)].st = "rejected"}
        first == IF rej = {} THEN -1
                 ELSE CHOOSE i \in rej : \A j \in rej : i <= j
    IN  (p :> [Node("parallel", "pending", NoErr, targetArray, targetName, context)
                 EXCEPT !.fr = first])
        @@ Merge(subs)

ExecuteArrayTargetSerially(targetArray, targetName, context, p) ==
    IF Length(targetArray) < 2
    THEN p :> Node("settled", "resolved", NoErr, targetArray, targetName, context)
    ELSE (p :> Node("serial", "pending", NoErr, targetArray, targetName, context))
         @@ ExecuteAnyTarget(Elem(targetArray, 1), targetName, context, Append(p, 1))

ExecuteArrayTarget(targetArray, targetName, context, p) ==
    IF Length(targetArray) = 0
    THEN p :> Node("settled", "resolved", NoErr, targetArray, targetName, context)
    ELSE IF Elem(targetArray, 0) = True
    THEN ExecuteArrayTargetSerially(targetArray, targetName, context, p)
    ELSE ExecuteArrayTargetInParallel(targetArray, targetName, context, p)

ExecuteAnyTarget(target, targetName, context, p) ==
    IF target.k \in {"null", "undefined", "boolean"}
    THEN p :> Node("settled", "resolved", NoErr, target, targetName, context)
    ELSE IF Constructor(target) = "Array"
    THEN ExecuteArrayTarget(target, targetName, context, p)
    ELSE IF Constructor(target) = "String"
    THEN ExecuteTargetWithName(target.n, context, p)
    ELSE IF Constructor(target) = "Function"
    THEN ExecuteTargetRunner(target, targetName, context, p)
    ELSE p :> Node("settled", "rejected", UnsupportedError(target),
                   target, targetName, context)

-----------------------------------------------------------------------------
(* Inputs: the registries a builder is constructed with, the listeners     *)
(* registered on it and the arguments executeTarget is called with.        *)

\* Registered target names and the values they are bound to.
BaseRegistry ==
    "a"     :> Fn("fnA")
 @@ "b"     :> Fn("fnB")
 @@ "all"   :> Arr(<<True, Str("a"), Str("b")>>)
 @@ "deep"  :> Str("all")
 @@ "mix"   :> Arr(<<True, Arr(<<Str("a"), Fn("fnB")>>), Fn("fnC")>>)
 @@ "pser"  :> Arr(<<Arr(<<True, Str("a"), Str("b")>>), Fn("fnC")>>)
 @@ "ser"   :> Arr(<<True, Fn("fnA"), Fn("fnB"), Fn("fnC")>>)
 @@ "par"   :> Arr(<<Fn("fnA"), Fn("fnB"), False>>)
 @@ "num"   :> Num("42")
 @@ "nul"   :> Null
 @@ "und"   :> Undefined
 @@ "yes"   :> True
 @@ "abs"   :> Arr(<<Null, Undefined, False>>)
 @@ "bad"   :> Arr(<<True, Arr(<<Fn("fnA"), Obj>>), Fn("fnB")>>)
 @@ "thr"   :> Fn("fnThrow")
 @@ "test1" :> Fn("fnTest1")
 @@ "test2" :> Fn("fnTest2")
 @@ "tests" :> Arr(<<True, Str("test1"), Str("test2")>>)

\* A registry of the shapes met one by one: a callback that returns nothing,
\* alone and inside a serial and a parallel array; a name referenced twice;
\* an empty, a missing and an unsupported element followed by a callback.
TreeRegistry ==
    "a"     :> Fn("fnA")
 @@ "ret"   :> Fn("fnReturn")
 @@ "rets"  :> Arr(<<True, Str("ret"), Str("a")>>)
 @@ "pret"  :> Arr(<<Str("ret"), Str("a")>>)
 @@ "dup"   :> Arr(<<True, Str("a"), Str("a")>>)
 @@ "dups"  :> Arr(<<Str("a"), Arr(<<True, Str("a")>>)>>)
 @@ "emp"   :> Arr(<<True, Str(""), Str("a")>>)
 @@ "miss"  :> Arr(<<True, Str("nope"), Str("a")>>)
 @@ "odd"   :> Arr(<<True, Num("42"), Str("a")>>)
 @@ "pmiss" :> Arr(<<Str("a"), Str("nope")>>)

\* new LLBuild() without targets: this.targets = {}
NoTargets == [n \in {} |-> Null]

\* The elements of the generated array targets.
Elements == {True, False, Str("a"), Str("nope"), Num("42")}

\* Every array of at most MaxLen elements.
ArrayTargets ==
    {Arr(e) : e \in UNION {[1 .. n -> Elements] : n \in 0 .. MaxLen}}

\* The registries: none, the base one, and the base one with each generated
\* array bound to the name t.
Registries ==
    {NoTargets, BaseRegistry} \cup {("t" :> t) @@ BaseRegistry : t \in ArrayTargets}

Names ==
    DOMAIN BaseRegistry \cup DOMAIN TreeRegistry
        \cup {"t", "nope", "constructor", "__proto__"}

NonStrings ==
    {Null, Undefined, True, False, Num("0"), Num("42"), Arr(<<Str("a")>>),
     Arr(<<True, Arr(<<Fn("fnA"), Fn("fnB")>>)>>), Fn("fnA"), Obj}

\* The registry of the builder two calls are made on at the same time: a
\* callback that can do anything, one that throws, one that returns and a
\* parallel array with a serial one inside.
PairRegistry ==
    "a"   :> Fn("fnA")
 @@ "thr" :> Fn("fnThrow")
 @@ "ret" :> Fn("fnReturn")
 @@ "two" :> Arr(<<Str("ret"), Arr(<<True, Str("a")>>)>>)

\* What each of the two calls is made with.
PairArguments == {Str("a"), Str("thr"), Str("two"), Str("nope"), Null}

\* The arguments explored with a registry: t with a registry that binds t,
\* the few of PairArguments with PairRegistry, everything else with the
\* others.
Arguments(reg) ==
    IF "t" \in DOMAIN reg THEN {Str("t")}
    ELSE IF reg = PairRegistry THEN PairArguments
    ELSE NonStrings \cup {Str("")} \cup {Str(n) : n \in Names}

\* The context objects explored with a registry: one with a registry that
\* binds t to a generated array, with and without one with the others.
ContextsWith(reg) ==
    IF "t" \in DOMAIN reg THEN {"ctx"} ELSE Contexts

\* A listener either returns or throws.  Every kind has one listener that
\* returns; at most one kind has a second one, that throws.
ListenerSetups ==
    {[k \in EventKinds |-> IF k = bad THEN <<"returns", "throws">> ELSE <<"returns">>] :
        bad \in (EventKinds \ {"consoleOutput"}) \cup {"none"}}

\* EventEmitter.emit calls the listeners of the kind in order; the
\* exception of a listener leaves emit.
Throws(kind) ==
    \E i \in DOMAIN listeners[kind] : listeners[kind][i] = "throws"

Event(kind, targetName, err) == [kind |-> kind, targetName |-> targetName, err |-> err]

\* The listeners emit calls: those of the kind, in the order they were
\* registered, up to and including the first one that throws.
Called(kind) ==
    LET ls == listeners[kind]
    IN  {ls[i] : i \in {j \in DOMAIN ls : \A h \in 1 .. j - 1 : ls[h] # "throws"}}

Emit(kind, targetName, err) ==
    /\ emitted' = emitted (+) SetToBag({Event(kind, targetName, err)})
    /\ calls' = calls (+) SetToBag({[listener |-> l,
                                     event |-> Event(kind, targetName, err)] :
                                        l \in Called(kind)})

\* The record of a consoleOutput event.
ConsoleOutput(targetName, content) ==
    [kind |-> "consoleOutput", targetName |-> targetName, content |-> content]

\* emitConsoleOutput(targetName, content)
EmitConsoleOutput(targetName, content) ==
    /\ emitted' = emitted (+) SetToBag({ConsoleOutput(targetName, content)})
    /\ calls' = calls (+) SetToBag({[listener |-> l,
                                     event |-> ConsoleOutput(targetName, content)] :
                                        l \in Called("consoleOutput")})

-----------------------------------------------------------------------------
(* Options *)

\* A number held by an options object.
Number(i) == [k |-> "number", i |-> i]

\* The empty object literal {}.
NoOptions == [key \in {} |-> Undefined]

\* obj[key] of an options object: undefined when the object has no such key.
Get(obj, key) == IF key \in DOMAIN obj THEN obj[key] ELSE Undefined

\* Mutant of MakeDefaultOptions: a default replaces every falsy value.
MakeDefaultOptions_Falsy(src) ==
    LET opts == src
        q == IF Falsy(Get(opts, "quiet")) THEN ("quiet" :> False) @@ opts ELSE opts
    IN  IF Falsy(Get(q, "maxBufferSize")) \/ Get(q, "maxBufferSize") = Number(0)
        THEN ("maxBufferSize" :> Number(200 * 1024)) @@ q ELSE q

\* makeDefaultOptions(src): a copy of src, with the defaults in the place
\* of the keys that are undefined.
MakeDefaultOptions(src) ==
    LET opts == src
        q == IF Get(opts, "quiet") = Undefined
             THEN ("quiet" :> False) @@ opts ELSE opts
    IN  IF Get(q, "maxBufferSize") = Undefined
        THEN ("maxBufferSize" :> Number(200 * 1024)) @@ q ELSE q

\* options || {}
OrEmpty(opts) == IF opts = Undefined \/ opts = Null THEN NoOptions ELSE opts

\* Mutant of BuilderPrint: a quiet builder emits no event either.
BuilderPrint_Silent(content, targetName) ==
    IF Falsy(options["quiet"])
    THEN /\ stdout' = Append(stdout, content)
         /\ EmitConsoleOutput(targetName, content)
    ELSE UNCHANGED <<stdout, emitted, calls>>

\* print(content, targetName): console.log unless quiet, then the event.
BuilderPrint(content, targetName) ==
    /\ stdout' = IF Falsy(options["quiet"]) THEN Append(stdout, content) ELSE stdout
    /\ EmitConsoleOutput(targetName, content)

\* The environment of a builder constructed without options, in a process
\* started without arguments, before any helper was called.
\* What a child process did: its exit code or the signal that ended it (as
\* the texts a template literal makes of them) and what it wrote.
NoChild == [code |-> "null", signal |-> "null", out |-> "", errOut |-> ""]

\* op, arg, tname: the helper called last and its arguments.  pc, st, value,
\* err: the position of the call and the promise it returned.  child: what
\* the child process of executeCommand did.  before: the file system when
\* the helper was called.  prev: the helper called before this one, its path
\* and the file system it was called in.  n: the number of helper calls.
NoProc == [op |-> "none", pc |-> "idle", st |-> "none", arg |-> "",
           tname |-> Undefined, value |-> "", err |-> NoErr, child |-> NoChild,
           before |-> {},
           prev |-> [op |-> "none", arg |-> "", st |-> "none", before |-> {}],
           n |-> 0]

\* No executeTarget call has been made.
Idle == [pc |-> "idle", arg |-> Undefined, ctx |-> "undefined",
         st |-> "none", err |-> NoErr, up |-> "none", upErr |-> NoErr,
         hist |-> <<>>]

NoNodes == [q \in {} |-> Null]

\* No second call is in flight.
NoOther == [call |-> Idle, nodes |-> NoNodes]

DefaultEnv ==
    /\ supplied = Undefined
    /\ options = MakeDefaultOptions(OrEmpty(Undefined))
    /\ argv = <<"node", "build.js">>
    /\ stdout = <<>>
    /\ fs = {}
    /\ proc = NoProc
    /\ other = NoOther

-----------------------------------------------------------------------------
(* Construction *)

Init ==
    /\ targets \in Registries
    /\ listeners \in ListenerSetups
    /\ call = Idle
    /\ nodes = NoNodes
    /\ emitted = EmptyBag
    /\ calls = EmptyBag
    /\ DefaultEnv

-----------------------------------------------------------------------------
(* executeTarget and its build wrapper *)

\* Mutant of IsTargetName: only the truthiness of the argument is tested.
IsTargetName_Truthy(targetName) == ~Falsy(targetName)

\* Mutant of IsTargetName: only the constructor of the argument is tested.
IsTargetName_AnyString(targetName) == Constructor(targetName) = "String"

\* The test of executeTarget: !targetName || targetName.constructor !== String
IsTargetName(targetName) ==
    ~(Falsy(targetName) \/ Constructor(targetName) # "String")

\* executeTarget(targetName, context), up to the promise it returns.
ExecuteTarget ==
    /\ call.pc = "idle"
    /\ \E targetName \in Arguments(targets), context \in ContextsWith(targets) :
          call' = IF IsTargetName(targetName)
                  THEN [Idle EXCEPT !.pc = "emitBuildStarted", !.arg = targetName,
                                    !.ctx = context, !.st = "pending"]
                  ELSE [Idle EXCEPT !.pc = "settled", !.arg = targetName,
                                    !.ctx = context, !.st = "rejected",
                                    !.err = NotAStringError]
    /\ UNCHANGED <<targets, listeners, nodes, emitted, calls, env>>

\* .then(() => { this.emitBuildStarted(targetName); ... })
BuildStarted ==
    /\ call.pc = "emitBuildStarted"
    /\ Emit("buildStarted", call.arg.n, NoErr)
    /\ call' = IF Throws("buildStarted")
               THEN [call EXCEPT !.pc = "settle", !.up = "rejected",
                                 !.upErr = ListenerError("buildStarted"),
                                 !.hist = Append(@, "buildStarted")]
               ELSE [call EXCEPT !.pc = "execute",
                                 !.hist = Append(@, "buildStarted")]
    /\ UNCHANGED <<targets, listeners, nodes, env>>

\* Mutant of BuildExecute: a name bound to another name is rebound, in the
\* registry, to the value that other name is bound to.
BuildExecute_Rebind ==
    /\ call.pc = "execute"
    /\ nodes' = ExecuteAnyTarget(call.arg, call.arg.n, call.ctx, <<>>)
    /\ call' = [call EXCEPT !.pc = "await", !.hist = Append(@, "execute")]
    /\ targets' = IF call.arg.n \in DOMAIN targets /\ targets[call.arg.n].k = "string"
                  THEN [targets EXCEPT ![call.arg.n] = Lookup(targets, @.n)]
                  ELSE targets
    /\ UNCHANGED <<listeners, emitted, calls, env>>

\* .then(() => this.executeAnyTarget(targetName, targetName, context))
BuildExecute ==
    /\ call.pc = "execute"
    /\ nodes' = ExecuteAnyTarget(call.arg, call.arg.n, call.ctx, <<>>)
    /\ call' = [call EXCEPT !.pc = "await", !.hist = Append(@, "execute")]
    /\ UNCHANGED <<targets, listeners, emitted, calls, env>>

\* The state of the promise the last .then of executeTarget is attached to.
Upstream ==
    IF call.pc = "settle" THEN [st |-> call.up, err |-> call.upErr]
    ELSE [st |-> nodes[<<>>].st, err |-> nodes[<<>>].err]

\* Mutant of BuildSettled: the reaction before it does not return the
\* promise of executeAnyTarget, so the build is reported complete as soon as
\* the execution has been started.
BuildSettled_NoWait ==
    /\ call.pc \in {"settle", "await"}
    /\ IF call.pc = "await"
       THEN /\ Emit("buildComplete", call.arg.n, NoErr)
            /\ call' = [call EXCEPT
                          !.pc = "settled",
                          !.st = IF Throws("buildComplete") THEN "rejected" ELSE "resolved",
                          !.err = IF Throws("buildComplete")
                                  THEN ListenerError("buildComplete") ELSE NoErr,
                          !.hist = Append(@, "buildComplete")]
       ELSE /\ Emit("buildFailed", call.arg.n, call.upErr)
            /\ call' = [call EXCEPT
                          !.pc = "settled",
                          !.st = "rejected",
                          !.err = IF Throws("buildFailed")
                                  THEN ListenerError("buildFailed") ELSE call.upErr,
                          !.hist = Append(@, "buildFailed")]
    /\ UNCHANGED <<targets, listeners, nodes, env>>

\* Mutant of BuildSettled: the builder remembers that a build has failed,
\* and every call that ends after it is reported failed with that error.
BuildSettled_SharedFailure ==
    /\ \/ call.pc = "settle"
       \/ call.pc = "await" /\ nodes[<<>>].st # "pending"
    /\ LET up == IF other.call.st = "rejected"
                 THEN [st |-> "rejected", err |-> other.call.err]
                 ELSE Upstream
       IN  IF up.st = "resolved"
           THEN /\ Emit("buildComplete", call.arg.n, NoErr)
                /\ call' = [call EXCEPT
                              !.pc = "settled",
                              !.st = IF Throws("buildComplete")
                                     THEN "rejected" ELSE "resolved",
                              !.err = IF Throws("buildComplete")
                                      THEN ListenerError("buildComplete") ELSE NoErr,
                              !.hist = Append(@, "buildComplete")]
           ELSE /\ Emit("buildFailed", call.arg.n, up.err)
                /\ call' = [call EXCEPT
                              !.pc = "settled",
                              !.st = "rejected",
                              !.err = IF Throws("buildFailed")
                                      THEN ListenerError("buildFailed") ELSE up.err,
                              !.hist = Append(@, "buildFailed")]
    /\ UNCHANGED <<targets, listeners, nodes, env>>

\* .then(() => { this.emitBuildComplete(..) }, err => { this.emitBuildFailed(..) })
BuildSettled ==
    /\ \/ call.pc = "settle"
       \/ call.pc = "await" /\ nodes[<<>>].st # "pending"
    /\ IF Upstream.st = "resolved"
       THEN /\ Emit("buildComplete", call.arg.n, NoErr)
            /\ call' = [call EXCEPT
                          !.pc = "settled",
                          !.st = IF Throws("buildComplete") THEN "rejected" ELSE "resolved",
                          !.err = IF Throws("buildComplete")
                                  THEN ListenerError("buildComplete") ELSE NoErr,
                          !.hist = Append(@, "buildComplete")]
       ELSE /\ Emit("buildFailed", call.arg.n, Upstream.err)
            /\ call' = [call EXCEPT
                          !.pc = "settled",
                          !.st = "rejected",
                          !.err = IF Throws("buildFailed")
                                  THEN ListenerError("buildFailed") ELSE Upstream.err,
                          !.hist = Append(@, "buildFailed")]
    /\ UNCHANGED <<targets, listeners, nodes, env>>

-----------------------------------------------------------------------------
(* executeTargetRunner: the reactions of the chain *)

\* Mutant of CallbackArgs: the context is not passed on.
CallbackArgs_NoContext(builder, context) == <<builder>>

\* targetRunner(this, context): the arguments of the call
CallbackArgs(builder, context) == <<builder, context>>

\* .then(() => { this.emitTargetExecutionStarted(targetName); ... })
RunnerStarted(p) ==
    /\ nodes[p].kind = "runner" /\ nodes[p].pc = "emitStarted"
    /\ Emit("targetExecutionStarted", nodes[p].tname, NoErr)
    /\ nodes' = IF Throws("targetExecutionStarted")
                THEN [nodes EXCEPT ![p].pc = "handler", ![p].out = "rejected",
                         ![p].outErr = ListenerError("targetExecutionStarted"),
                         ![p].hist = Append(@, "targetExecutionStarted")]
                ELSE [nodes EXCEPT ![p].pc = "invoke",
                         ![p].hist = Append(@, "targetExecutionStarted")]
    /\ UNCHANGED <<targets, listeners, call, env>>

\* .then(() => targetRunner(this, context))
RunnerInvoke(p) ==
    /\ nodes[p].kind = "runner" /\ nodes[p].pc = "invoke"
    /\ \E b \in Behaviours(nodes[p].target.n) :
          \/ /\ b = "print"
             /\ BuilderPrint(Printed[nodes[p].target.n], Undefined)
             /\ nodes' =
                  IF Throws("consoleOutput")
                  THEN [nodes EXCEPT ![p].pc = "handler", ![p].out = "rejected",
                          ![p].outErr = ListenerError("consoleOutput"),
                          ![p].args = CallbackArgs(Self, nodes[p].ctx),
                          ![p].hist = @ \o <<"invoke", "consoleOutput", "settled">>]
                  ELSE [nodes EXCEPT ![p].pc = "handler", ![p].out = "resolved",
                          ![p].args = CallbackArgs(Self, nodes[p].ctx),
                          ![p].hist = @ \o <<"invoke", "consoleOutput", "settled">>]
             /\ UNCHANGED <<options, supplied, argv, fs, proc, other>>
          \/ /\ b # "print"
             /\ nodes' =
                  CASE b = "throw" ->
                         [nodes EXCEPT ![p].pc = "handler", ![p].out = "rejected",
                            ![p].outErr = ActionError(p),
                            ![p].args = CallbackArgs(Self, nodes[p].ctx),
                            ![p].hist = @ \o <<"invoke", "settled">>]
                    [] b = "return" ->
                         [nodes EXCEPT ![p].pc = "handler", ![p].out = "resolved",
                            ![p].args = CallbackArgs(Self, nodes[p].ctx),
                            ![p].hist = @ \o <<"invoke", "settled">>]
                    [] b = "promise" ->
                         [nodes EXCEPT ![p].pc = "running",
                            ![p].args = CallbackArgs(Self, nodes[p].ctx),
                            ![p].hist = Append(@, "invoke")]
             /\ UNCHANGED <<emitted, calls, env>>
    /\ UNCHANGED <<targets, listeners, call>>

\* The promise the callback returned settles.
ActionSettle(p) ==
    /\ nodes[p].kind = "runner" /\ nodes[p].pc = "running"
    /\ \E r \in {"resolved", "rejected"} :
          nodes' = [nodes EXCEPT ![p].pc = "handler", ![p].out = r,
                      ![p].outErr = IF r = "rejected" THEN ActionError(p) ELSE NoErr,
                      ![p].hist = Append(@, "settled")]
    /\ UNCHANGED <<targets, listeners, call, emitted, calls, env>>

\* Mutant of RunnerSettled: one handler for both outcomes, which reports
\* completion and passes the outcome on.
RunnerSettled_AlwaysCompleted(p) ==
    /\ nodes[p].kind = "runner" /\ nodes[p].pc = "handler"
    /\ Emit("targetExecutionCompleted", nodes[p].tname, NoErr)
    /\ nodes' = [Settle(nodes, p, nodes[p].out, nodes[p].outErr)
                 EXCEPT ![p].pc = "done",
                        ![p].hist = Append(@, "targetExecutionCompleted")]
    /\ UNCHANGED <<targets, listeners, call, env>>

\* Mutant of RunnerSettled: the chain of a callback is abandoned once the
\* promise executeTarget returned has settled.
RunnerSettled_Cancelled(p) ==
    /\ nodes[p].kind = "runner" /\ nodes[p].pc = "handler"
    /\ call.pc # "settled"
    /\ IF nodes[p].out = "resolved"
       THEN /\ Emit("targetExecutionCompleted", nodes[p].tname, NoErr)
            /\ nodes' =
                 [(IF Throws("targetExecutionCompleted")
                   THEN Settle(nodes, p, "rejected",
                               ListenerError("targetExecutionCompleted"))
                   ELSE Settle(nodes, p, "resolved", NoErr))
                  EXCEPT ![p].pc = "done",
                         ![p].hist = Append(@, "targetExecutionCompleted")]
       ELSE /\ Emit("targetExecutionFailed", nodes[p].tname, nodes[p].outErr)
            /\ nodes' =
                 [(IF Throws("targetExecutionFailed")
                   THEN Settle(nodes, p, "rejected",
                               ListenerError("targetExecutionFailed"))
                   ELSE Settle(nodes, p, "rejected", nodes[p].outErr))
                  EXCEPT ![p].pc = "done",
                         ![p].hist = Append(@, "targetExecutionFailed")]
    /\ UNCHANGED <<targets, listeners, call, env>>

\* .then(() => { this.emitTargetExecutionCompleted(..) },
\*       err => { this.emitTargetExecutionFailed(..); return Promise.reject(err); })
RunnerSettled(p) ==
    /\ nodes[p].kind = "runner" /\ nodes[p].pc = "handler"
    /\ IF nodes[p].out = "resolved"
       THEN /\ Emit("targetExecutionCompleted", nodes[p].tname, NoErr)
            /\ nodes' =
                 [(IF Throws("targetExecutionCompleted")
                   THEN Settle(nodes, p, "rejected",
                               ListenerError("targetExecutionCompleted"))
                   ELSE Settle(nodes, p, "resolved", NoErr))
                  EXCEPT ![p].pc = "done",
                         ![p].hist = Append(@, "targetExecutionCompleted")]
       ELSE /\ Emit("targetExecutionFailed", nodes[p].tname, nodes[p].outErr)
            /\ nodes' =
                 [(IF Throws("targetExecutionFailed")
                   THEN Settle(nodes, p, "rejected",
                               ListenerError("targetExecutionFailed"))
                   ELSE Settle(nodes, p, "rejected", nodes[p].outErr))
                  EXCEPT ![p].pc = "done",
                         ![p].hist = Append(@, "targetExecutionFailed")]
    /\ UNCHANGED <<targets, listeners, call, env>>

-----------------------------------------------------------------------------
(* Composites: the reactions of the serial chain and of Promise.all *)

\* Mutant of SerialNext: the reaction does not return the promise of the
\* element, so the chain goes on as soon as the element has been started.
SerialNext_NoWait(p) ==
    /\ nodes[p].kind = "serial" /\ nodes[p].st = "pending"
    /\ LET i == nodes[p].next
           c == Append(p, i)
       IN  /\ nodes[c].st # "pending" \/ i + 1 < Length(nodes[p].target)
           /\ nodes' =
                IF nodes[c].st = "rejected"
                THEN Settle(nodes, p, "rejected", nodes[c].err)
                ELSE IF i + 1 < Length(nodes[p].target)
                THEN ExecuteAnyTarget(Elem(nodes[p].target, i + 1), nodes[p].tname,
                                      nodes[p].ctx, Append(p, i + 1))
                     @@ [nodes EXCEPT ![p].next = i + 1]
                ELSE Settle(nodes, p, "resolved", NoErr)
    /\ UNCHANGED <<targets, listeners, call, emitted, calls, env>>

\* promise.then(() => this.executeAnyTarget(nextTarget, targetName, context)):
\* the element the chain waits for has settled.  A rejection passes through
\* the remaining .then calls, which have no rejection handler.
SerialNext(p) ==
    /\ nodes[p].kind = "serial" /\ nodes[p].st = "pending"
    /\ LET i == nodes[p].next
           c == Append(p, i)
       IN  /\ nodes[c].st # "pending"
           /\ nodes' =
                IF nodes[c].st = "rejected"
                THEN Settle(nodes, p, "rejected", nodes[c].err)
                ELSE IF i + 1 < Length(nodes[p].target)
                THEN ExecuteAnyTarget(Elem(nodes[p].target, i + 1), nodes[p].tname,
                                      nodes[p].ctx, Append(p, i + 1))
                     @@ [nodes EXCEPT ![p].next = i + 1]
                ELSE Settle(nodes, p, "resolved", NoErr)
    /\ UNCHANGED <<targets, listeners, call, emitted, calls, env>>

\* Mutant of ParallelSettled: the promise resolves with the first element
\* that resolves, as Promise.race would.
ParallelSettled_Race(p) ==
    /\ nodes[p].kind = "parallel" /\ nodes[p].st = "pending"
    /\ IF nodes[p].fr # -1
       THEN nodes' = Settle(nodes, p, "rejected", nodes[Append(p, nodes[p].fr)].err)
       ELSE /\ \E c \in ChildrenOf(nodes, p) : nodes[c].st = "resolved"
            /\ nodes' = Settle(nodes, p, "resolved", NoErr)
    /\ UNCHANGED <<targets, listeners, call, emitted, calls, env>>

\* Promise.all: rejects with the first rejection of an element, resolves
\* when every element has resolved.
ParallelSettled(p) ==
    /\ nodes[p].kind = "parallel" /\ nodes[p].st = "pending"
    /\ IF nodes[p].fr # -1
       THEN nodes' = Settle(nodes, p, "rejected", nodes[Append(p, nodes[p].fr)].err)
       ELSE /\ \A c \in ChildrenOf(nodes, p) : nodes[c].st = "resolved"
            /\ nodes' = Settle(nodes, p, "resolved", NoErr)
    /\ UNCHANGED <<targets, listeners, call, emitted, calls, env>>

-----------------------------------------------------------------------------

Next ==
    \/ ExecuteTarget
    \/ BuildStarted
    \/ BuildExecute
    \/ BuildSettled
    \/ \E p \in DOMAIN nodes : RunnerStarted(p)
    \/ \E p \in DOMAIN nodes : RunnerInvoke(p)
    \/ \E p \in DOMAIN nodes : ActionSettle(p)
    \/ \E p \in DOMAIN nodes : RunnerSettled(p)
    \/ \E p \in DOMAIN nodes : SerialNext(p)
    \/ \E p \in DOMAIN nodes : ParallelSettled(p)

Spec == Init /\ [][Next]_vars

-----------------------------------------------------------------------------
(* The notification bus changed while an execution is in flight *)

\* The listener functions a caller registers: two that return and one that
\* throws.  A function is registered at most once for a kind.
ListenerFunctions == {"returns", "other", "throws"}

\* The kinds the callers of this specification add listeners to and remove
\* them from.
BusKinds == {"targetExecutionStarted"}

\* The builder of this specification: a callback, a serial and a parallel
\* array over it.
BusRegistry ==
    "a"   :> Fn("fnA")
 @@ "all" :> Arr(<<True, Str("a"), Str("a")>>)
 @@ "par" :> Arr(<<Str("a"), False>>)

InitBus ==
    /\ targets = BusRegistry
    /\ listeners = [k \in EventKinds |-> <<"returns">>]
    /\ call = Idle
    /\ nodes = NoNodes
    /\ emitted = EmptyBag
    /\ calls = EmptyBag
    /\ DefaultEnv

\* addListener(eventName, listener)
AddListener ==
    /\ \E eventName \in BusKinds, listener \in ListenerFunctions :
          /\ \A i \in DOMAIN listeners[eventName] : listeners[eventName][i] # listener
          /\ listeners' = [listeners EXCEPT ![eventName] = Append(@, listener)]
    /\ UNCHANGED <<targets, call, nodes, emitted, calls, env>>

\* Mutant of RemoveListener: every listener of the event is removed with
\* the one named.
RemoveListener_WholeKind ==
    /\ \E eventName \in BusKinds :
          /\ listeners[eventName] # <<>>
          /\ listeners' = [listeners EXCEPT ![eventName] = <<>>]
    /\ UNCHANGED <<targets, call, nodes, emitted, calls, env>>

\* removeListener(eventName, listener)
RemoveListener ==
    /\ \E eventName \in BusKinds : \E i \in DOMAIN listeners[eventName] :
          listeners' = [listeners EXCEPT ![eventName] =
                           SubSeq(@, 1, i - 1) \o SubSeq(@, i + 1, Len(@))]
    /\ UNCHANGED <<targets, call, nodes, emitted, calls, env>>

\* removeAllListeners()
RemoveAllListeners ==
    /\ \E k \in EventKinds : listeners[k] # <<>>
    /\ listeners' = [k \in EventKinds |-> <<>>]
    /\ UNCHANGED <<targets, call, nodes, emitted, calls, env>>

NextBus ==
    \/ Next
    \/ AddListener
    \/ RemoveListener
    \/ RemoveAllListeners

SpecBus == InitBus /\ [][NextBus]_vars

-----------------------------------------------------------------------------
(* The helpers of the builder: print, executeCommand, mkdirp, rmrf *)

\* The calls of print and executeCommand explored in one behaviour, and the
\* calls of mkdirp and rmrf explored in one behaviour.
MaxCalls == 1
MaxOps == 2

\* The options objects handed to the constructor: none, or an object of the
\* documented type, each key absent, undefined or set.
OptionObjects ==
    {Undefined} \cup
    UNION {{o \in [keys -> {Undefined, True, False, Number(0), Number(4)}] :
               /\ "quiet" \in keys => o["quiet"].k \in {"undefined", "boolean"}
               /\ "maxBufferSize" \in keys =>
                     o["maxBufferSize"].k \in {"undefined", "number"}} :
              keys \in SUBSET {"quiet", "maxBufferSize"}}

TargetNames == {Null, Undefined, Str("t")}

Contents == {"test1", ""}

Commands == {"node --version", "node --invalid-arg"}

\* A directory is the sequence of the names that lead to it from the working
\* directory, which always exists.
Paths == {<<"mkdirp_test">>, <<"mkdirp_test", "test1">>,
          <<"mkdirp_test", "test1", "test2">>}

RECURSIVE PathText(_)
PathText(path) ==
    IF Len(path) = 1 THEN path[1]
    ELSE PathText(SubSeq(path, 1, Len(path) - 1)) \o "/" \o path[Len(path)]

IsPrefix(p, q) == Len(p) <= Len(q) /\ SubSeq(q, 1, Len(p)) = p

\* The file systems: every directory that exists lies in one that exists.
FileSystems ==
    {d \in SUBSET Paths : \A q \in d : \A p \in Paths : IsPrefix(p, q) => p \in d}

\* Mutant of Mkdirp: only the last directory of the path is made.
Mkdirp_Leaf(dirs, path) == dirs \cup {path}

\* mkdirp(path) of the mkdirp package: the directory and every missing
\* directory above it.
Mkdirp(dirs, path) == dirs \cup {p \in Paths : IsPrefix(p, path)}

\* rimraf(path): the directory and everything below it; nothing to do, and
\* no error, when it does not exist.
Rimraf(dirs, path) == {d \in dirs : ~IsPrefix(path, d)}

\* What the child processes write.  Size is the length of an output; the
\* long one stands for more output than the default buffer holds.
LongOutput == "<300000 characters>"
StdOuts == {"", "v8.1.0\n", LongOutput}
StdErrs == {"", "node: bad option: --invalid-arg\n"}

Size(text) ==
    CASE text = ""         -> 0
      [] text = "v8.1.0\n" -> 7
      [] text = LongOutput -> 300000
      [] OTHER             -> 33

Children ==
    {[code |-> c.code, signal |-> c.signal, out |-> o, errOut |-> e] :
        c \in {[code |-> "0", signal |-> "null"], [code |-> "9", signal |-> "null"],
               [code |-> "null", signal |-> "SIGTERM"]},
        o \in StdOuts, e \in StdErrs}

\* child_process.exec(cmd, { maxBuffer }, callback): the arguments of the
\* callback and the exit state of the child.  Output beyond maxBuffer ends
\* the child and is an error; so is an exit code other than 0 or a signal,
\* with the message exec makes; otherwise err is null.
Exec(cmd, maxBuffer, child) ==
    IF Size(child.out) > maxBuffer \/ Size(child.errOut) > maxBuffer
    THEN [err |-> Err("stdout maxBuffer exceeded", <<>>), stdout |-> "",
          stderr |-> "", exitCode |-> "null", signalCode |-> "SIGTERM"]
    ELSE IF child.code # "0"
    THEN [err |-> Err("Command failed: " \o cmd \o "\n" \o child.errOut, <<>>),
          stdout |-> child.out, stderr |-> child.errOut,
          exitCode |-> child.code, signalCode |-> child.signal]
    ELSE [err |-> NoErr, stdout |-> child.out, stderr |-> child.errOut,
          exitCode |-> "0", signalCode |-> "null"]

\* The errors of executeCommand's own making.
ExitedWithSignal(cmd, signalCode) == Err("'" \o cmd \o "' exited with signal: " \o signalCode, <<>>)
ExitedWithCode(cmd, exitCode)     == Err("'" \o cmd \o "' exited with code: " \o exitCode, <<>>)

\* A builder made with each options object, with or without a listener of
\* consoleOutput.
InitHost ==
    /\ targets = NoTargets
    /\ listeners \in {[k \in EventKinds |-> <<>>], [k \in EventKinds |-> <<"returns">>]}
    /\ call = Idle
    /\ nodes = NoNodes
    /\ emitted = EmptyBag
    /\ calls = EmptyBag
    /\ supplied \in OptionObjects
    /\ options = MakeDefaultOptions(OrEmpty(supplied))
    /\ argv = <<"node", "build.js">>
    /\ stdout = <<>>
    /\ fs = {}
    /\ proc = NoProc
    /\ other = NoOther

\* A builder, quiet or not, in each file system.
InitFiles ==
    /\ targets = NoTargets
    /\ listeners = [k \in EventKinds |-> <<"returns">>]
    /\ call = Idle
    /\ nodes = NoNodes
    /\ emitted = EmptyBag
    /\ calls = EmptyBag
    /\ supplied \in {Undefined, [quiet |-> True]}
    /\ options = MakeDefaultOptions(OrEmpty(supplied))
    /\ argv = <<"node", "build.js">>
    /\ stdout = <<>>
    /\ fs \in FileSystems
    /\ proc = NoProc
    /\ other = NoOther

\* The record of a helper call that follows the call recorded in proc.
Calling(op, arg, targetName) ==
    [NoProc EXCEPT !.op = op, !.arg = arg, !.tname = targetName, !.n = proc.n + 1,
                   !.before = fs,
                   !.prev = [op |-> proc.op, arg |-> proc.arg, st |-> proc.st,
                             before |-> proc.before]]

\* No helper call is in flight and another one may be explored.
Ready(max) == proc.pc \in {"idle", "settled"} /\ proc.n < max

\* print(content, targetName), called from outside the engine
PrintContent ==
    /\ Ready(MaxCalls)
    /\ \E content \in Contents, targetName \in TargetNames :
          /\ BuilderPrint(content, targetName)
          /\ proc' = [Calling("print", content, targetName) EXCEPT !.pc = "settled"]
    /\ UNCHANGED <<targets, listeners, call, nodes, options, supplied, argv, fs, other>>

\* executeCommand(cmd, targetName), up to the promise it returns: the
\* command is printed and the child process started.
ExecuteCommand ==
    /\ Ready(MaxCalls)
    /\ \E cmd \in Commands, targetName \in TargetNames :
          /\ BuilderPrint(cmd, targetName)
          /\ proc' = [Calling("executeCommand", cmd, targetName)
                      EXCEPT !.pc = "running", !.st = "pending"]
    /\ UNCHANGED <<targets, listeners, call, nodes, options, supplied, argv, fs, other>>

\* LLBuild.executeCommand(cmd, quiet, maxBufferSize): the same on a builder
\* made for this call, which has no targets and no listeners.
StaticExecuteCommand ==
    /\ Ready(MaxCalls)
    /\ \E cmd \in Commands, quiet \in {Undefined, True, False},
          maxBufferSize \in {Undefined, Number(4)} :
          LET src == [quiet |-> quiet, maxBufferSize |-> maxBufferSize]
              opts == MakeDefaultOptions(OrEmpty(src))
          IN  /\ supplied' = src
              /\ options' = opts
              /\ listeners' = [k \in EventKinds |-> <<>>]
              /\ stdout' = IF Falsy(opts["quiet"]) THEN Append(stdout, cmd) ELSE stdout
              /\ emitted' = emitted (+) SetToBag({ConsoleOutput(Str("exec"), cmd)})
              /\ proc' = [Calling("executeCommand", cmd, Str("exec"))
                          EXCEPT !.pc = "running", !.st = "pending"]
    /\ UNCHANGED <<targets, call, nodes, calls, argv, fs, other>>

\* What the callback of exec prints: the lines it writes unless quiet, and
\* the contents of the consoleOutput events it emits.
Reported(cmd, r) ==
    IF r.err # NoErr
    THEN IF r.stdout # "" \/ r.stderr # ""
         THEN LET errStr == "'" \o cmd \o "' error:"
                              \o (IF r.stdout # "" THEN "\n" \o r.stdout ELSE "")
                              \o (IF r.stderr # "" THEN "\n" \o r.stderr ELSE "")
              IN  [writes |-> <<errStr>>, contents |-> <<errStr>>]
         ELSE [writes |-> <<>>, contents |-> <<>>]
    ELSE LET first == IF r.stdout # "" THEN <<r.stdout>> ELSE <<>>
         IN  IF r.exitCode # "0" /\ r.stderr # ""
             THEN [writes |-> Append(first, "'" \o cmd \o "' error:\n" \o r.stderr),
                   contents |-> Append(first, r.stderr)]
             ELSE [writes |-> first, contents |-> first]

RECURSIVE ConsoleOutputs(_, _)
ConsoleOutputs(targetName, contents) ==
    IF contents = <<>> THEN EmptyBag
    ELSE SetToBag({ConsoleOutput(targetName, contents[1])})
         (+) ConsoleOutputs(targetName, Tail(contents))

RECURSIVE ConsoleCalls(_, _)
ConsoleCalls(targetName, contents) ==
    IF contents = <<>> THEN EmptyBag
    ELSE SetToBag({[listener |-> l, event |-> ConsoleOutput(targetName, contents[1])] :
                      l \in Called("consoleOutput")})
         (+) ConsoleCalls(targetName, Tail(contents))

\* How the callback of exec settles the promise of executeCommand.
Settled(cmd, r) ==
    IF r.err # NoErr
    THEN [st |-> "rejected", value |-> "", err |-> r.err]
    ELSE IF r.exitCode # "0"
    THEN [st |-> "rejected", value |-> "",
          err |-> IF r.exitCode = "null" THEN ExitedWithSignal(cmd, r.signalCode)
                  ELSE ExitedWithCode(cmd, r.exitCode)]
    ELSE [st |-> "resolved", value |-> r.stdout, err |-> NoErr]

\* The child process has ended: the callback handed to exec runs.
ChildExit ==
    /\ proc.op = "executeCommand" /\ proc.pc = "running"
    /\ \E child \in Children :
          LET r == Exec(proc.arg, options["maxBufferSize"].i, child)
              rep == Reported(proc.arg, r)
              s == Settled(proc.arg, r)
          IN  /\ stdout' = IF Falsy(options["quiet"]) THEN stdout \o rep.writes
                           ELSE stdout
              /\ emitted' = emitted (+) ConsoleOutputs(proc.tname, rep.contents)
              /\ calls' = calls (+) ConsoleCalls(proc.tname, rep.contents)
              /\ proc' = [proc EXCEPT !.pc = "settled", !.st = s.st,
                                      !.value = s.value, !.err = s.err,
                                      !.child = child]
    /\ UNCHANGED <<targets, listeners, call, nodes, options, supplied, argv, fs, other>>

\* mkdirp(path, targetName), up to the promise it returns
BuilderMkdirp ==
    /\ Ready(MaxOps)
    /\ \E path \in Paths, targetName \in TargetNames :
          /\ BuilderPrint("mkdir -p " \o PathText(path), targetName)
          /\ proc' = [Calling("mkdirp", path, targetName)
                      EXCEPT !.pc = "running", !.st = "pending"]
    /\ UNCHANGED <<targets, listeners, call, nodes, options, supplied, argv, fs, other>>

\* rmrf(path, targetName), up to the promise it returns
BuilderRmrf ==
    /\ Ready(MaxOps)
    /\ \E path \in Paths, targetName \in TargetNames :
          /\ BuilderPrint("rm -rf " \o PathText(path), targetName)
          /\ proc' = [Calling("rmrf", path, targetName)
                      EXCEPT !.pc = "running", !.st = "pending"]
    /\ UNCHANGED <<targets, listeners, call, nodes, options, supplied, argv, fs, other>>

\* The file system operation of mkdirp or rmrf has ended: it was done, or,
\* where there was something to make or to remove, it failed and left the
\* file system as it was.
FileSystemDone ==
    /\ proc.op \in {"mkdirp", "rmrf"} /\ proc.pc = "running"
    /\ \E done \in BOOLEAN :
          /\ ~done => fs # (IF proc.op = "mkdirp" THEN Mkdirp(fs, proc.arg)
                            ELSE Rimraf(fs, proc.arg))
          /\ fs' = IF ~done THEN fs
                   ELSE IF proc.op = "mkdirp" THEN Mkdirp(fs, proc.arg)
                   ELSE Rimraf(fs, proc.arg)
          /\ proc' = [proc EXCEPT !.pc = "settled",
                         !.st = IF done THEN "resolved" ELSE "rejected",
                         !.err = IF done THEN NoErr ELSE Err("EACCES", <<>>)]
    /\ UNCHANGED <<targets, listeners, call, nodes, emitted, calls, options,
                   supplied, argv, stdout, other>>

NextHost ==
    \/ PrintContent
    \/ ExecuteCommand
    \/ StaticExecuteCommand
    \/ ChildExit

SpecHost == InitHost /\ [][NextHost]_vars

NextFiles ==
    \/ BuilderMkdirp
    \/ BuilderRmrf
    \/ FileSystemDone

SpecFiles == InitFiles /\ [][NextFiles]_vars

-----------------------------------------------------------------------------
(* runArgs *)

\* The command lines of the build script: node, the script, the arguments.
Argvs == {<<"node", "build.js">>, <<"node", "build.js", "par">>,
          <<"node", "build.js", "all", "a">>, <<"node", "build.js", "nope">>}

\* Mutant of GetArgTarget: the index is taken from the start of the command
\* line, where the path of the script is.
GetArgTarget_Script(args) ==
    IF Len(args) < 2 THEN "default" ELSE args[2]

\* getArgTarget(): process.argv[2], or 'default' when process.argv is
\* shorter.  args is process.argv, counted from 1 here.
GetArgTarget(args) ==
    IF Len(args) < 3 THEN "default" ELSE args[3]

\* The registry of a build script with a default target.
ArgsRegistry == ("default" :> Str("all")) @@ BusRegistry

InitArgs ==
    /\ targets = ArgsRegistry
    /\ listeners = [k \in EventKinds |-> <<"returns">>]
    /\ call = Idle
    /\ nodes = NoNodes
    /\ emitted = EmptyBag
    /\ calls = EmptyBag
    /\ supplied = Undefined
    /\ options = MakeDefaultOptions(OrEmpty(Undefined))
    /\ argv \in Argvs
    /\ stdout = <<>>
    /\ fs = {}
    /\ proc = NoProc
    /\ other = NoOther

\* runArgs(context): executeTarget(this.getArgTarget(), context), up to the
\* promise it returns.
RunArgs ==
    /\ call.pc = "idle"
    /\ \E context \in Contexts :
          LET targetName == Str(GetArgTarget(argv))
          IN  /\ call' = IF IsTargetName(targetName)
                         THEN [Idle EXCEPT !.pc = "emitBuildStarted", !.arg = targetName,
                                           !.ctx = context, !.st = "pending"]
                         ELSE [Idle EXCEPT !.pc = "settled", !.arg = targetName,
                                           !.ctx = context, !.st = "rejected",
                                           !.err = NotAStringError]
              /\ proc' = [Calling("runArgs", targetName.n, Undefined)
                          EXCEPT !.pc = "settled"]
    /\ UNCHANGED <<targets, listeners, nodes, emitted, calls, options, supplied,
                   argv, stdout, fs, other>>

NextArgs == Next \/ RunArgs

SpecArgs == InitArgs /\ [][NextArgs]_vars

-----------------------------------------------------------------------------
(* Vocabulary of the properties *)

Runners == {p \in DOMAIN nodes : nodes[p].kind = "runner"}

Has(h, x) == \E i \in DOMAIN h : h[i] = x
Pos(h, x) == CHOOSE i \in DOMAIN h : h[i] = x

\* The runner's callback has been called.
Invoked(p) == Has(nodes[p].hist, "invoke")

\* Nothing is left to run: every reaction has run and every promise that
\* could settle has settled.  executeTarget has returned and its chain has
\* run, every callback chain is at its end, no serial chain has a settled
\* element to react to and no Promise.all can settle.
Terminal ==
    /\ call.pc \in {"await", "settled"}
    /\ call.pc = "await" => nodes[<<>>].st = "pending"
    /\ \A p \in DOMAIN nodes :
          /\ nodes[p].kind = "runner" => nodes[p].pc = "done"
          /\ nodes[p].kind = "serial" /\ nodes[p].st = "pending" =>
                nodes[Append(p, nodes[p].next)].st = "pending"
          /\ nodes[p].kind = "parallel" /\ nodes[p].st = "pending" =>
                /\ nodes[p].fr = -1
                /\ \E c \in ChildrenOf(nodes, p) : nodes[c].st # "resolved"

\* Terminal is exactly the states in which no action of the engine is enabled.
TerminalIsQuiescence == Terminal <=> ~ENABLED Next

IsSerialArray(v)   == v.k = "array" /\ Length(v) > 0 /\ Elem(v, 0) = True
IsParallelArray(v) == v.k = "array" /\ Length(v) > 0 /\ Elem(v, 0) # True

\* The indices of the elements of the array at p that have been started.
Started(p) == {Last(c) : c \in ChildrenOf(nodes, p)}

\* The value met at path p before any name was resolved.
Origin(p) ==
    IF p = <<>> THEN call.arg ELSE Elem(nodes[Parent(p)].target, Last(p))

TargetEvents == {"targetExecutionStarted", "targetExecutionCompleted",
                 "targetExecutionFailed"}

\* The event record a runner handed to emit for the entry x of its history.
EventOf(p, x) ==
    Event(x, nodes[p].tname,
          IF x = "targetExecutionFailed" THEN nodes[p].outErr ELSE NoErr)

-----------------------------------------------------------------------------
(* C1 *)

\* C1: in a serial array (first element exactly true) the elements 1..end are
\* started in increasing index order, element i+1 only after element i has
\* resolved; once an element has failed no later element is started, and the
\* composite rejects (with that element's error).
C1_SerialOrder ==
    \A p \in DOMAIN nodes :
        IsSerialArray(nodes[p].target) =>
            LET n == Length(nodes[p].target)
                idx == Started(p)
            IN  /\ idx \subseteq 1 .. n - 1
                /\ \A i \in idx : i > 1 =>
                      /\ i - 1 \in idx
                      /\ nodes[Append(p, i - 1)].st = "resolved"
                /\ \A i \in idx : nodes[Append(p, i)].st = "rejected" =>
                      /\ \A j \in idx : j <= i
                      /\ nodes[p].st \in {"pending", "rejected"}
                      /\ nodes[p].st = "rejected" => nodes[p].err = nodes[Append(p, i)].err
                /\ nodes[p].st = "resolved" =>
                      \A i \in 1 .. n - 1 :
                          i \in idx /\ nodes[Append(p, i)].st = "resolved"
                /\ nodes[p].st = "rejected" =>
                      \E i \in idx : nodes[Append(p, i)].st = "rejected"
                /\ Terminal => nodes[p].st # "pending"

\* A serial array of four elements whose element 1 succeeded and element 2
\* failed: element 3 was not started and the composite has rejected.
C1_Witness ==
    \E p \in DOMAIN nodes :
        /\ IsSerialArray(nodes[p].target)
        /\ Length(nodes[p].target) = 4
        /\ Started(p) = {1, 2}
        /\ nodes[Append(p, 1)].st = "resolved"
        /\ nodes[Append(p, 2)].st = "rejected"
        /\ nodes[p].st = "rejected"

-----------------------------------------------------------------------------
(* C2 *)

\* C2: in a parallel array (non-empty, first element not true) every element,
\* index 0 included, is started whatever happens to the others (an element that
\* is a callback gets its started event and runs to the end of its chain), and
\* the composite rejects if and only if an element fails: it resolves only
\* when every element has resolved.
C2_ParallelAll ==
    \A p \in DOMAIN nodes :
        IsParallelArray(nodes[p].target) =>
            LET n == Length(nodes[p].target)
                failed == {i \in Started(p) : nodes[Append(p, i)].st = "rejected"}
            IN  /\ Started(p) = 0 .. n - 1
                /\ nodes[p].st = "resolved" =>
                      \A i \in 0 .. n - 1 : nodes[Append(p, i)].st = "resolved"
                /\ nodes[p].st = "rejected" => failed # {}
                /\ Terminal =>
                      /\ nodes[p].st # "pending"
                      /\ nodes[p].st = "rejected" <=> failed # {}
                      /\ \A i \in 0 .. n - 1 :
                            LET c == Append(p, i)
                            IN  /\ nodes[c].st # "pending"
                                /\ nodes[c].kind = "runner" =>
                                      Has(nodes[c].hist, "targetExecutionStarted")

\* A parallel array of three elements that has rejected because one element
\* failed, while the callback at index 0 was started and completed.
C2_Witness ==
    \E p \in DOMAIN nodes :
        /\ IsParallelArray(nodes[p].target)
        /\ Length(nodes[p].target) = 3
        /\ nodes[p].st = "rejected"
        /\ nodes[Append(p, 0)].kind = "runner"
        /\ nodes[Append(p, 0)].st = "resolved"
        /\ Has(nodes[Append(p, 0)].hist, "targetExecutionCompleted")
        /\ nodes[Append(p, 1)].st = "rejected"

-----------------------------------------------------------------------------
(* C3 *)

\* The number of records equal to the one runner p emitted for x that the
\* emitter was handed, against the number of runners that emitted such a one.
EmittedAsRecorded(p, x) ==
    Has(nodes[p].hist, x) =>
        CopiesIn(EventOf(p, x), emitted) =
            Cardinality({q \in Runners : /\ Has(nodes[q].hist, x)
                                         /\ EventOf(q, x) = EventOf(p, x)})

\* C3: for every callback the engine calls, targetExecutionStarted for its
\* reporting name is emitted before the call, and after the callback has
\* settled exactly one of targetExecutionCompleted (it succeeded) and
\* targetExecutionFailed (it failed) is emitted for that execution: never
\* both, and never neither once nothing is left to run.
C3_RunnerEvents ==
    \A p \in Runners :
        LET h == nodes[p].hist
            ends == {i \in DOMAIN h : h[i] \in {"targetExecutionCompleted",
                                                "targetExecutionFailed"}}
        IN  /\ \A x \in TargetEvents : EmittedAsRecorded(p, x)
            /\ Invoked(p) =>
                  /\ Has(h, "targetExecutionStarted")
                  /\ Pos(h, "targetExecutionStarted") < Pos(h, "invoke")
                  /\ Cardinality({i \in DOMAIN h : h[i] = "targetExecutionStarted"}) = 1
                  /\ Cardinality({i \in DOMAIN h : h[i] = "invoke"}) = 1
                  /\ Cardinality(ends) <= 1
                  /\ \A i \in ends :
                        /\ Has(h, "settled") /\ Pos(h, "settled") < i
                        /\ h[i] = "targetExecutionCompleted" <=> nodes[p].out = "resolved"
                        /\ h[i] = "targetExecutionFailed" <=>
                              /\ nodes[p].out = "rejected"
                              /\ nodes[p].outErr = ActionError(p)
                  /\ Terminal => Cardinality(ends) = 1

\* Two callbacks of one execution, both called after their started event:
\* one succeeded and emitted only completed, one failed and emitted only failed.
C3_Witness ==
    \E p, q \in Runners :
        /\ nodes[p].hist = <<"targetExecutionStarted", "invoke", "settled",
                             "targetExecutionCompleted">>
        /\ nodes[q].hist = <<"targetExecutionStarted", "invoke", "settled",
                             "targetExecutionFailed">>
        /\ CopiesIn(EventOf(q, "targetExecutionFailed"), emitted) = 1

-----------------------------------------------------------------------------
(* C4 *)

\* C4: every executeTarget call with a string name emits buildStarted for
\* that name before any target-level event or callback of the call, and then
\* exactly one terminal build event: buildComplete if and only if the returned
\* promise resolves, buildFailed (carrying the error) if and only if it rejects.
C4_BuildEvents ==
    call.pc # "idle" /\ call.arg.k = "string" /\ call.arg # Str("") =>
        LET h == call.hist
            ends == {i \in DOMAIN h : h[i] \in {"buildComplete", "buildFailed"}}
        IN  /\ nodes # NoNodes =>
                  CopiesIn(Event("buildStarted", call.arg.n, NoErr), emitted) = 1
            /\ Cardinality(ends) <= 1
            /\ \A i \in ends : Has(h, "buildStarted") /\ Pos(h, "buildStarted") < i
            /\ call.st = "resolved" <=> Has(h, "buildComplete")
            /\ call.st = "rejected" <=> Has(h, "buildFailed")
            /\ Has(h, "buildComplete") =>
                  CopiesIn(Event("buildComplete", call.arg.n, NoErr), emitted) = 1
            /\ Has(h, "buildFailed") =>
                  CopiesIn(Event("buildFailed", call.arg.n, call.err), emitted) = 1

\* No registered listener throws.
QuietListeners == \A k \in EventKinds : ~Throws(k)

\* What remains of C4 when no listener throws.
C4_BuildEventsQuiet == QuietListeners => C4_BuildEvents

-----------------------------------------------------------------------------
(* C5 *)

\* The errors that originate in the execution: those the callbacks produced
\* and those the engine made for a missing name or an unsupported value.
Originated ==
    {nodes[p].outErr : p \in {q \in Runners : Invoked(q) /\ nodes[q].out = "rejected"}}
    \cup {nodes[p].err : p \in {q \in DOMAIN nodes : nodes[q].kind = "settled"
                                                     /\ nodes[q].st = "rejected"}}

\* The callbacks that have failed.
FailedActions == {p \in Runners : Invoked(p) /\ nodes[p].out = "rejected"}

\* C5: when a callback fails, at any depth, the promise executeTarget returned
\* rejects with the very error the callback produced (one of them, when
\* several things failed), and targetExecutionFailed and buildFailed carry
\* it: no level wraps, replaces or swallows it.
C5_ErrorIdentity ==
    /\ \A p \in FailedActions :
          /\ nodes[p].pc = "done" =>
                /\ nodes[p].st = "rejected" /\ nodes[p].err = nodes[p].outErr
                /\ CopiesIn(Event("targetExecutionFailed", nodes[p].tname,
                                  nodes[p].outErr), emitted) = 1
          /\ call.pc = "settled" =>
                /\ call.st = "rejected"
                /\ call.err \in Originated
                /\ CopiesIn(Event("buildFailed", call.arg.n, call.err), emitted) = 1
    /\ \A p \in FailedActions : \A n \in 0 .. Len(p) - 1 :
          LET q == SubSeq(p, 1, n)
          IN  nodes[q].st = "rejected" => nodes[q].err \in Originated

\* What remains of C5 when no listener throws.
C5_ErrorIdentityQuiet == QuietListeners => C5_ErrorIdentity

-----------------------------------------------------------------------------
(* C6 *)

\* C6: a parallel composite surfaces its failure (to the enclosing serial
\* step, to buildFailed and to the caller) only after every one of its
\* elements has settled; no buildFailed while a sibling of the failing
\* element is still running.
C6_JoinBeforeFailure ==
    \A p \in DOMAIN nodes :
        nodes[p].kind = "parallel" /\ nodes[p].st = "rejected" =>
            \A c \in ChildrenOf(nodes, p) : nodes[c].st # "pending"

-----------------------------------------------------------------------------
(* C7 *)

\* C7: resolving a name that is no key of the registry (any name at all when
\* the builder was constructed without targets) rejects with the error
\* 'Target does not exist: <name>', and no callback is called for it.
C7_MissingName ==
    \A p \in DOMAIN nodes :
        Origin(p).k = "string" /\ Origin(p).n \notin DOMAIN targets =>
            /\ nodes[p].kind = "settled"
            /\ nodes[p].st = "rejected"
            /\ nodes[p].err = DoesNotExistError(Origin(p).n)

\* The names the registry does not bind and no object inherits.
PlainName(n) == n \notin DOMAIN ObjectPrototype

\* What remains of C7 for the names that Object.prototype does not define.
C7_MissingPlainName ==
    \A p \in DOMAIN nodes :
        /\ Origin(p).k = "string"
        /\ Origin(p).n \notin DOMAIN targets
        /\ PlainName(Origin(p).n)
        => /\ nodes[p].kind = "settled"
           /\ nodes[p].st = "rejected"
           /\ nodes[p].err = DoesNotExistError(Origin(p).n)

-----------------------------------------------------------------------------
(* C8 *)

-----------------------------------------------------------------------------
(* C9 *)

\* C9, as claimed: the targetName of every target-level event is the name
\* executeTarget was called with, also for a callback reached through
\* further names.
C9_TopLevelName ==
    \A p \in Runners : \A x \in TargetEvents :
        Has(nodes[p].hist, x) => EventOf(p, x).targetName = call.arg.n

\* The name most recently resolved through the registry on the way from the
\* value v, met under the name nm, along the indices rest.
RECURSIVE NearestName(_, _, _)
NearestName(v, nm, rest) ==
    IF v.k = "string" THEN NearestName(Lookup(targets, v.n), v.n, rest)
    ELSE IF v.k = "array" /\ rest # <<>>
    THEN NearestName(Elem(v, Head(rest)), nm, Tail(rest))
    ELSE nm

\* C9, amended: every name resolved on the way to a callback becomes the
\* reporting name of what lies below it.  The targetName of the callback's
\* events is the name most recently resolved on the path from the requested
\* target to it ('a' for executeTarget('all') with all: [true, 'a'], a: fnA);
\* arrays on the path leave it unchanged.
C9_NearestName ==
    \A p \in Runners :
        /\ nodes[p].tname = NearestName(call.arg, call.arg.n, p)
        /\ \A x \in TargetEvents :
              Has(nodes[p].hist, x) =>
                  /\ EventOf(p, x).targetName = NearestName(call.arg, call.arg.n, p)
                  /\ CopiesIn(EventOf(p, x), emitted) >= 1

\* executeTarget('deep'), deep: 'all', all: [true, 'a', 'b']: the callback of
\* a has completed and its events carry the name a.
C9_Witness ==
    /\ call.arg = Str("deep")
    /\ <<1>> \in Runners
    /\ nodes[<<1>>].tname = "a"
    /\ Has(nodes[<<1>>].hist, "targetExecutionCompleted")
    /\ CopiesIn(Event("targetExecutionCompleted", "a", NoErr), emitted) = 1

-----------------------------------------------------------------------------
(* C10 *)

\* C10: every callback called during an executeTarget invocation, at any
\* depth, is called with exactly two arguments: the builder that executes it
\* and the context value the caller supplied (undefined when none was).
C10_CallbackArguments ==
    \A p \in Runners :
        Invoked(p) =>
            /\ Len(nodes[p].args) = 2
            /\ nodes[p].args[1] = Self
            /\ nodes[p].args[2] = call.ctx

\* A callback two levels down (mix: [true, ['a', fnB], fnC]) has been called
\* with the caller's context.
C10_Witness ==
    /\ call.arg = Str("mix")
    /\ call.ctx = "ctx"
    /\ <<1, 0>> \in Runners
    /\ nodes[<<1, 0>>].args = <<Self, "ctx">>

-----------------------------------------------------------------------------
(* C11 *)

\* The target value of the scenario: [true, [fn1, fn2]].
NestedValue == Arr(<<True, Arr(<<Fn("fnA"), Fn("fnB")>>)>>)

\* C11: executeTarget accepts a target value and not only a name: once
\* executeTarget([true, [fn1, fn2]], ctx) has returned and nothing is left to
\* run, fn1 and fn2 have both been called with the caller's ctx, and the
\* promise has resolved if both succeeded.
C11_TargetValue ==
    call.arg = NestedValue /\ Terminal =>
        /\ {<<1, 0>>, <<1, 1>>} \subseteq Runners
        /\ \A p \in {<<1, 0>>, <<1, 1>>} :
              Invoked(p) /\ nodes[p].args = <<Self, call.ctx>>
        /\ (\A p \in {<<1, 0>>, <<1, 1>>} : nodes[p].out = "resolved")
              => call.st = "resolved"

-----------------------------------------------------------------------------
(* C12 *)

\* C12: a name that is a key of the registry bound to null or undefined
\* resolves as a success that does nothing, and the error 'Target does not
\* exist: <name>' is produced only for a name that is no key of the registry.
C12_BoundToAbsent ==
    \A p \in DOMAIN nodes :
        Origin(p).k = "string" =>
            LET n == Origin(p).n
            IN  /\ n \in DOMAIN targets /\ targets[n].k \in {"null", "undefined"} =>
                      /\ nodes[p].kind = "settled"
                      /\ nodes[p].st = "resolved"
                /\ nodes[p].err = DoesNotExistError(n) => n \notin DOMAIN targets

-----------------------------------------------------------------------------
(* C13 *)

\* C13: classifying a target value that is null, undefined or false succeeds
\* immediately: the promise returned for it is already resolved, it is no
\* callback execution (nothing is called and nothing is emitted for it), and
\* an execution that classifies nothing else (the registered target abs:
\* [null, undefined, false]) calls no callback and emits no target-level event.
C13_AbsentValues ==
    /\ \A p \in DOMAIN nodes :
          nodes[p].target \in {Null, Undefined, False} =>
              /\ nodes[p].kind = "settled"
              /\ nodes[p].st = "resolved"
              /\ nodes[p].err = NoErr
              /\ nodes[p].hist = <<>>
              /\ ChildrenOf(nodes, p) = {}
    /\ call.arg = Str("abs") /\ "abs" \in DOMAIN targets /\ nodes # NoNodes =>
          /\ DOMAIN nodes = {<<>>, <<0>>, <<1>>, <<2>>}
          /\ Runners = {}
          /\ \A e \in BagToSet(emitted) : e.kind \notin TargetEvents
          /\ Terminal /\ QuietListeners => call.st = "resolved"

\* executeTarget('abs') with abs: [null, undefined, false] has resolved: the
\* three values were classified and each gave a resolved promise.
C13_Witness ==
    /\ call.arg = Str("abs")
    /\ call.st = "resolved"
    /\ nodes[<<0>>].target = Null /\ nodes[<<0>>].st = "resolved"
    /\ nodes[<<1>>].target = Undefined /\ nodes[<<1>>].st = "resolved"
    /\ nodes[<<2>>].target = False /\ nodes[<<2>>].st = "resolved"

-----------------------------------------------------------------------------
(* C14 *)

\* The indices of the array at p, other than the marker position, that hold
\* true, and the started elements that are not true and have rejected.
TrueAt(p) ==
    {i \in 1 .. Length(nodes[p].target) - 1 : Elem(nodes[p].target, i) = True}

FailedOthers(p) ==
    {i \in Started(p) : /\ Elem(nodes[p].target, i) # True
                        /\ nodes[Append(p, i)].st = "rejected"}

\* C14: true executed as a value (freestanding under a name, at an index other
\* than 0 of a parallel array, at an index from 1 of a serial array) gives an
\* already resolved promise, calls nothing and emits nothing; the mode of the
\* enclosing array is decided by index 0 alone, and its outcome by its other
\* elements alone.
C14_TrueAsValue ==
    /\ \A p \in DOMAIN nodes :
          nodes[p].target = True =>
              /\ nodes[p].kind = "settled"
              /\ nodes[p].st = "resolved"
              /\ nodes[p].hist = <<>>
              /\ ChildrenOf(nodes, p) = {}
    /\ \A p \in DOMAIN nodes :
          nodes[p].target.k = "array" /\ TrueAt(p) # {} =>
              /\ IsParallelArray(nodes[p].target) =>
                    /\ nodes[p].kind = "parallel"
                    /\ Started(p) = 0 .. Length(nodes[p].target) - 1
              /\ IsSerialArray(nodes[p].target) =>
                    /\ nodes[p].kind = "serial"
                    /\ 0 \notin Started(p)
              /\ nodes[p].st = "rejected" => FailedOthers(p) # {}
              /\ Terminal =>
                    /\ nodes[p].st # "pending"
                    /\ nodes[p].st = "rejected" <=> FailedOthers(p) # {}
    /\ call.arg = Str("yes") /\ "yes" \in DOMAIN targets /\ nodes # NoNodes =>
          /\ DOMAIN nodes = {<<>>}
          /\ \A e \in BagToSet(emitted) : e.kind \notin TargetEvents

\* t: ['a', true] has resolved as a parallel array: both indices were started,
\* the callback of a completed and the true at index 1 gave a resolved promise.
C14_Witness ==
    /\ call.arg = Str("t")
    /\ DOMAIN nodes = {<<>>, <<0>>, <<1>>}
    /\ nodes[<<>>].target = Arr(<<Str("a"), True>>)
    /\ nodes[<<>>].kind = "parallel"
    /\ nodes[<<>>].st = "resolved"
    /\ nodes[<<1>>].target = True
    /\ Has(nodes[<<0>>].hist, "targetExecutionCompleted")

-----------------------------------------------------------------------------
(* C15 *)

\* The promises made for a value that is none of null, undefined, a boolean,
\* an array, a string or a function.
Unsupported == {p \in DOMAIN nodes : nodes[p].target.k \in {"number", "object"}}

\* C15: a number or a plain object met as a target value, at any depth, is
\* answered with a promise (never an exception out of the engine) that is
\* created rejected with 'Unsupported target type: ' followed by the typeof of
\* the value; nothing is called or emitted for it, no array above it resolves,
\* and the promise of executeTarget ends rejected.
C15_UnsupportedValue ==
    /\ \A p \in Unsupported :
          /\ nodes[p].kind = "settled"
          /\ nodes[p].st = "rejected"
          /\ nodes[p].err.msg =
                "Unsupported target type: " \o
                (IF nodes[p].target.k = "number" THEN "number" ELSE "object")
          /\ nodes[p].hist = <<>>
          /\ \A n \in 0 .. Len(p) - 1 : nodes[SubSeq(p, 1, n)].st # "resolved"
    /\ Unsupported # {} =>
          /\ call.pc \in {"await", "settled"}
          /\ call.pc = "settled" => call.st = "rejected"
          /\ Terminal => call.pc = "settled"
    /\ /\ call.arg \in {Str("num"), Str("__proto__")}
       /\ call.pc = "settled"
       /\ nodes # NoNodes
       /\ QuietListeners
       => call.err = nodes[<<>>].err

\* executeTarget('bad') with bad: [true, [fnA, {}], fnB]: the object two levels
\* down gave a promise rejected with 'Unsupported target type: object', the
\* arrays above it and the promise of executeTarget have rejected, fnB was
\* never started.
C15_Witness ==
    /\ call.arg = Str("bad")
    /\ call.st = "rejected"
    /\ <<1, 1>> \in DOMAIN nodes
    /\ nodes[<<1, 1>>].target = Obj
    /\ nodes[<<1, 1>>].err.msg = "Unsupported target type: object"
    /\ nodes[<<1>>].st = "rejected"
    /\ nodes[<<>>].st = "rejected"
    /\ <<2>> \notin DOMAIN nodes

-----------------------------------------------------------------------------
(* C16 *)

\* The executions of the callback that throws.
Throwing == {p \in Runners : nodes[p].target = Fn("fnThrow")}

\* C16: a callback that throws is handled like one whose promise rejects:
\* after its started event and its call, targetExecutionFailed carrying the
\* thrown error is emitted and targetExecutionCompleted is not, its promise
\* rejects with the thrown error, and so does the promise of executeTarget.
C16_ThrowLikeReject ==
    \A p \in Throwing :
        /\ Invoked(p) =>
              /\ nodes[p].out = "rejected"
              /\ nodes[p].outErr = ActionError(p)
        /\ nodes[p].pc = "done" /\ Invoked(p) =>
              /\ nodes[p].hist = <<"targetExecutionStarted", "invoke", "settled",
                                   "targetExecutionFailed">>
              /\ CopiesIn(Event("targetExecutionFailed", nodes[p].tname,
                                ActionError(p)), emitted) = 1
              /\ nodes[p].st = "rejected"
              /\ nodes[p].err = ActionError(p)
        /\ call.pc = "settled" /\ Invoked(p) =>
              /\ call.st = "rejected"
              /\ call.err = ActionError(p)

\* What remains of C16 when no listener throws.
C16_ThrowLikeRejectQuiet == QuietListeners => C16_ThrowLikeReject

-----------------------------------------------------------------------------
(* C17 *)

\* C17: listeners never affect the control flow of the engine.  Whatever
\* listeners are registered and whatever they do: the requested target is
\* executed, every callback whose started event was emitted is called, the
\* promise of a callback execution settles as the callback did (same outcome,
\* same error), and the promise of executeTarget settles as the execution of
\* the requested target did.
C17_ListenersInert ==
    /\ \A p \in Runners :
          /\ nodes[p].pc \in {"running", "handler", "done"} => Invoked(p)
          /\ nodes[p].pc = "done" =>
                /\ nodes[p].st = nodes[p].out
                /\ nodes[p].err = nodes[p].outErr
    /\ call.pc = "settled" /\ IsTargetName(call.arg) =>
          /\ nodes # NoNodes
          /\ call.st = nodes[<<>>].st
          /\ call.err = nodes[<<>>].err

\* What remains of C17 when no listener throws.
C17_ListenersInertQuiet == QuietListeners => C17_ListenersInert

-----------------------------------------------------------------------------
(* C18 *)

\* The event records handed to emit in the step.
EmittedNow ==
    {ev \in BagToSet(emitted') : CopiesIn(ev, emitted') = CopiesIn(ev, emitted) + 1}

\* Listener l has been called exactly once more, with the record ev.
CalledOnce(l, ev) ==
    CopiesIn([listener |-> l, event |-> ev], calls') =
        CopiesIn([listener |-> l, event |-> ev], calls) + 1

\* Every listener that is registered for the kind of a record when the record
\* is emitted is called once with it.
DeliveredToAll ==
    \A ev \in EmittedNow :
        \A i \in DOMAIN listeners[ev.kind] : CalledOnce(listeners[ev.kind][i], ev)

\* C18: a listener registered for a kind before an emission of that kind and
\* not removed before it is called exactly once for that emission, with the
\* event record, also when listeners were added or removed while the
\* execution was in flight; all the listeners of the kind receive it.
C18_DeliveredOnce == [][DeliveredToAll]_vars

\* What remains of C18 while no throwing listener is registered.
C18_DeliveredOnceQuiet == [][QuietListeners => DeliveredToAll]_vars

-----------------------------------------------------------------------------
(* C19 *)

\* The empty array and the array that holds only the marker.
EmptyArrays == {Arr(<<>>), Arr(<<True>>)}

\* C19: the empty array and [true] resolve immediately: the promise made for
\* either is already resolved, no element is started for it, and an execution
\* of a name bound to either calls no callback and emits no target-level
\* event.
C19_EmptyArrays ==
    /\ \A p \in DOMAIN nodes :
          nodes[p].target \in EmptyArrays =>
              /\ nodes[p].kind = "settled"
              /\ nodes[p].st = "resolved"
              /\ nodes[p].hist = <<>>
              /\ Started(p) = {}
    /\ /\ call.arg = Str("t")
       /\ "t" \in DOMAIN targets
       /\ targets["t"] \in EmptyArrays
       /\ nodes # NoNodes
       => /\ DOMAIN nodes = {<<>>}
          /\ Runners = {}
          /\ \A e \in BagToSet(emitted) : e.kind \notin TargetEvents
          /\ Terminal /\ QuietListeners => call.st = "resolved"

\* executeTarget('t') with t: [true] has resolved with the single promise of
\* the array, created resolved.
C19_Witness ==
    /\ call.arg = Str("t")
    /\ call.st = "resolved"
    /\ DOMAIN nodes = {<<>>}
    /\ nodes[<<>>].target = Arr(<<True>>)
    /\ nodes[<<>>].kind = "settled"

-----------------------------------------------------------------------------
(* C20 *)

\* C20: arrays nest, each with its own mode.  When element i of a serial array
\* is executed as a parallel array, element i+1 is started only after every
\* element of that parallel array has been started and has resolved; when an
\* element of a parallel array is executed as a serial array, that array
\* starts its own elements in index order, each after the one before it has
\* resolved, whatever its siblings do.
C20_NestedModes ==
    \A p \in DOMAIN nodes : \A c \in ChildrenOf(nodes, p) :
        /\ nodes[p].kind = "serial" /\ nodes[c].kind = "parallel"
           /\ Last(c) + 1 \in Started(p)
           => /\ nodes[c].st = "resolved"
              /\ Started(c) = 0 .. Length(nodes[c].target) - 1
              /\ \A d \in ChildrenOf(nodes, c) :
                    /\ nodes[d].st = "resolved"
                    /\ nodes[d].kind = "runner" => nodes[d].pc = "done"
        /\ nodes[p].kind = "parallel" /\ nodes[c].kind = "serial"
           => /\ Started(p) = 0 .. Length(nodes[p].target) - 1
              /\ \A i \in Started(c) :
                    /\ i >= 1
                    /\ i > 1 => /\ i - 1 \in Started(c)
                                /\ nodes[Append(c, i - 1)].st = "resolved"

\* executeTarget('mix') with mix: [true, ['a', fnB], fnC]: fnC has been
\* called, after both elements of the parallel array at index 1 completed.
C20_Witness ==
    /\ call.arg = Str("mix")
    /\ {<<1, 0>>, <<1, 1>>, <<2>>} \subseteq DOMAIN nodes
    /\ nodes[<<>>].kind = "serial"
    /\ nodes[<<1>>].kind = "parallel"
    /\ Has(nodes[<<1, 0>>].hist, "targetExecutionCompleted")
    /\ Has(nodes[<<1, 1>>].hist, "targetExecutionCompleted")
    /\ Invoked(<<2>>)

\* The serial array inside a parallel one and its sibling interleave
\* (pser: [[true, 'a', 'b'], fnC]): fnC is running, called before the serial
\* array started its second element or after, while that array goes on.
C20_Interleaved ==
    /\ call.arg = Str("pser")
    /\ {<<0, 1>>, <<0, 2>>, <<1>>} \subseteq DOMAIN nodes
    /\ nodes[<<0>>].kind = "serial"
    /\ nodes[<<1>>].pc = "running"
    /\ nodes[<<0, 2>>].pc = "running"

-----------------------------------------------------------------------------
(* C21 *)

\* The promises at or below path p.
Below(p) ==
    {q \in DOMAIN nodes : Len(q) >= Len(p) /\ SubSeq(q, 1, Len(p)) = p}

\* The execution at q has run to its end and succeeded: its completed event
\* was emitted after its callback settled, and what the callback printed
\* was emitted, as consoleOutput, between the call and the completed event.
FinishedWell(q) ==
    LET h == nodes[q].hist
    IN  /\ nodes[q].pc = "done"
        /\ Has(h, "targetExecutionCompleted")
        /\ h[Len(h)] = "targetExecutionCompleted"
        /\ EmittedAsRecorded(q, "targetExecutionCompleted")
        /\ nodes[q].target.n \in DOMAIN Printed =>
              /\ Has(h, "consoleOutput")
              /\ Pos(h, "invoke") < Pos(h, "consoleOutput")
              /\ Pos(h, "consoleOutput") < Pos(h, "targetExecutionCompleted")
              /\ CopiesIn(ConsoleOutput(Undefined, Printed[nodes[q].target.n]),
                          emitted) >= 1

\* C21: in a serial array every event of element i (the completed event of
\* each of its callbacks and what they printed before) has been emitted when
\* the execution of element i+1 is created, that is before element i+1 emits
\* its targetExecutionStarted; and the request of a serial array of two names
\* bound to callbacks that succeed calls them in order and resolves.
C21_SerialEvents ==
    /\ \A p \in DOMAIN nodes :
          IsSerialArray(nodes[p].target) =>
              \A i \in Started(p) :
                  i + 1 \in Started(p) =>
                      \A q \in Runners \cap Below(Append(p, i)) : FinishedWell(q)
    /\ /\ call.arg \in {Str("all"), Str("tests")}
       /\ call.arg.n \in DOMAIN targets
       /\ Terminal
       /\ QuietListeners
       /\ \A q \in Runners : nodes[q].out # "rejected"
       => /\ call.st = "resolved"
          /\ FinishedWell(<<1>>) /\ FinishedWell(<<2>>)
          /\ nodes[<<1>>].tname = Elem(targets[call.arg.n], 1).n
          /\ nodes[<<2>>].tname = Elem(targets[call.arg.n], 2).n
          /\ call.arg = Str("tests") => stdout = <<"test1", "test2">>

\* The serial array of the two printing callbacks: the second one has been
\* created and has not emitted its started event yet, the first one has
\* printed and completed.
C21_Witness ==
    /\ call.arg = Str("tests")
    /\ DOMAIN nodes = {<<>>, <<1>>, <<2>>}
    /\ nodes[<<2>>].hist = <<>>
    /\ nodes[<<1>>].hist = <<"targetExecutionStarted", "invoke", "consoleOutput",
                             "settled", "targetExecutionCompleted">>
    /\ stdout = <<"test1">>
    /\ CopiesIn(ConsoleOutput(Undefined, "test1"), emitted) = 1
    /\ CopiesIn(Event("targetExecutionCompleted", "test1", NoErr), emitted) = 1
    /\ CopiesIn(Event("targetExecutionStarted", "test2", NoErr), emitted) = 0

-----------------------------------------------------------------------------
(* C22 *)

\* The callback of the execution at p has been started and its chain has
\* not reached its end.
InFlight(p) == nodes[p].pc \in {"invoke", "running", "handler"}

\* A promise above p, or the one executeTarget returned, has settled already.
Overtaken(p) ==
    \/ call.pc = "settled"
    \/ \E n \in 0 .. Len(p) - 1 : nodes[SubSeq(p, 1, n)].st # "pending"

\* The next reaction of the chain of the execution at p.
RunnerStep(p) == RunnerInvoke(p) \/ ActionSettle(p) \/ RunnerSettled(p)

\* C22: nothing is cancelled.  A started callback whose composite (through a
\* failed sibling) or whose caller's promise has already settled is left as
\* it is: its own promise is still pending and the next reaction of its chain
\* can run; and a callback whose chain has ended has emitted its own
\* targetExecutionCompleted or targetExecutionFailed.
C22_NoCancellation ==
    \A p \in Runners :
        /\ InFlight(p) /\ Overtaken(p) =>
              /\ nodes[p].st = "pending"
              /\ ENABLED RunnerStep(p)
        /\ Invoked(p) /\ nodes[p].pc = "done" =>
              /\ Has(nodes[p].hist, "targetExecutionCompleted")
                    <=> nodes[p].out = "resolved"
              /\ Has(nodes[p].hist, "targetExecutionFailed")
                    <=> nodes[p].out = "rejected"
              /\ \E x \in {"targetExecutionCompleted", "targetExecutionFailed"} :
                    /\ Has(nodes[p].hist, x)
                    /\ CopiesIn(EventOf(p, x), emitted) >= 1

\* The caller's promise has been rejected with the error of a failed element
\* of a parallel array and buildFailed has been emitted, while a sibling is
\* still running; and that sibling can go on.
C22_Witness ==
    /\ call.pc = "settled" /\ call.st = "rejected"
    /\ Has(call.hist, "buildFailed")
    /\ \E p, q \in Runners :
          /\ Len(p) = 1 /\ Len(q) = 1
          /\ nodes[<<>>].kind = "parallel" /\ nodes[<<>>].st = "rejected"
          /\ nodes[q].st = "rejected" /\ call.err = nodes[q].outErr
          /\ nodes[p].pc = "running"
          /\ ENABLED ActionSettle(p)

-----------------------------------------------------------------------------
(* C23 *)

\* C23: no step of the engine changes the registry: whatever executeTarget
\* and the reactions it schedules do, this.targets keeps the keys and the
\* values the builder was constructed with.
C23_RegistryUnchanged == [][targets' = targets]_vars

\* An execution that resolved names through the registry, ran callbacks and
\* has come to its end, with the registry as it was given.
C23_Witness ==
    /\ call.pc = "settled"
    /\ call.arg = Str("mix")
    /\ Terminal
    /\ \A p \in Runners : nodes[p].pc = "done"
    /\ Cardinality(Runners) = 3
    /\ targets = BaseRegistry

-----------------------------------------------------------------------------
(* C24 *)

\* The step is a call of print from outside the engine.
PrintStep == proc'.op = "print" /\ proc'.n = proc.n + 1

\* C24: every call print(content, targetName) hands the emitter exactly one
\* more record, the consoleOutput event with that content and that
\* targetName, whatever the quiet option is, and each listener of
\* consoleOutput is called once with it; the content is written to the
\* standard output if the quiet option is false, and nothing is written
\* otherwise.
C24_PrintOnce ==
    [][PrintStep =>
          LET ev == ConsoleOutput(proc'.tname, proc'.arg)
          IN  /\ emitted' = emitted (+) SetToBag({ev})
              /\ BagCardinality(emitted') = BagCardinality(emitted) + 1
              /\ \A l \in {"returns"} :
                    CopiesIn([listener |-> l, event |-> ev], calls') =
                        CopiesIn([listener |-> l, event |-> ev], calls)
                        + (IF listeners["consoleOutput"] = <<>> THEN 0 ELSE 1)
              /\ stdout' = IF options["quiet"] = False
                           THEN Append(stdout, proc'.arg) ELSE stdout]_vars

\* print('test1', 't') on a quiet builder: nothing was written, the one
\* event was emitted and its listener called.
C24_Witness ==
    /\ proc.op = "print" /\ proc.pc = "settled"
    /\ proc.arg = "test1" /\ proc.tname = Str("t")
    /\ options["quiet"] = True
    /\ stdout = <<>>
    /\ emitted = SetToBag({ConsoleOutput(Str("t"), "test1")})
    /\ BagCardinality(calls) = 1

-----------------------------------------------------------------------------
(* C26 *)

\* The value the caller supplied for a key: undefined when no options
\* object was given or the object has no such key.
Given(key) ==
    IF supplied = Undefined \/ key \notin DOMAIN supplied THEN Undefined
    ELSE supplied[key]

\* The effective options are the supplied ones, with false for a quiet and
\* 204800 for a maxBufferSize that was not supplied or supplied as undefined.
EffectiveAsSupplied ==
    /\ DOMAIN options = {"quiet", "maxBufferSize"}
    /\ options["quiet"] =
          IF Given("quiet") = Undefined THEN False ELSE Given("quiet")
    /\ options["maxBufferSize"] =
          IF Given("maxBufferSize") = Undefined THEN Number(204800)
          ELSE Given("maxBufferSize")

\* The object the caller supplied is the one it supplied until another
\* builder is constructed with another object: the defaults went to a copy.
SuppliedKept ==
    \/ supplied' = supplied
    \/ /\ proc'.n = proc.n + 1 /\ proc'.tname = Str("exec")
       /\ supplied' \in [{"quiet", "maxBufferSize"} -> {Undefined, True, False, Number(4)}]

\* C26: the options in effect are quiet = false and maxBufferSize = 204800
\* for the keys that were not supplied or were supplied as undefined, and the
\* supplied values for the others; the options object of the caller is left
\* as it was.
C26_EffectiveOptions == []EffectiveAsSupplied /\ [][SuppliedKept]_vars

\* LLBuild.executeCommand(cmd, undefined, 4) has constructed its builder:
\* the caller's object holds undefined for quiet, the effective options hold
\* false, and the supplied maxBufferSize is in effect.
C26_Witness ==
    /\ proc.op = "executeCommand" /\ proc.tname = Str("exec")
    /\ supplied = [quiet |-> Undefined, maxBufferSize |-> Number(4)]
    /\ options = [quiet |-> False, maxBufferSize |-> Number(4)]

-----------------------------------------------------------------------------
(* C27 *)

\* The output of the child of the settled executeCommand call was more than
\* the buffer of exec holds.
OverBuffer ==
    \/ Size(proc.child.out) > options["maxBufferSize"].i
    \/ Size(proc.child.errOut) > options["maxBufferSize"].i

\* An executeCommand call has settled.
CommandSettled == proc.op = "executeCommand" /\ proc.pc = "settled"

\* What holds of every settled executeCommand call: it has resolved with
\* the output of the child if the child exited with code 0 within the buffer,
\* and has rejected otherwise.
C27_CommandSettles ==
    CommandSettled =>
        IF proc.child.code = "0" /\ ~OverBuffer
        THEN proc.st = "resolved" /\ proc.value = proc.child.out
        ELSE proc.st = "rejected" /\ proc.err # NoErr

\* C27: executeCommand resolves with the captured standard output when the
\* child exits with code 0 and rejects otherwise; for an exit code other than
\* 0 the message of the error states the code, for a child ended by a signal
\* it states the signal, and output beyond maxBufferSize is a failure.
C27_CommandOutcome ==
    /\ C27_CommandSettles
    /\ CommandSettled /\ ~OverBuffer /\ proc.child.code \notin {"0", "null"} =>
          proc.err = ExitedWithCode(proc.arg, proc.child.code)
    /\ CommandSettled /\ ~OverBuffer /\ proc.child.code = "null" =>
          proc.err = ExitedWithSignal(proc.arg, proc.child.signal)

-----------------------------------------------------------------------------
(* C25 *)

\* The step is a call of runArgs.
RunArgsStep == proc'.op = "runArgs" /\ proc'.n = proc.n + 1

\* The first argument after the path of the script, 'default' without one.
LaunchName == IF Len(argv) >= 3 THEN argv[3] ELSE "default"

\* C25: runArgs(context) does what executeTarget(name, context) does, name
\* being the first argument the script was launched with, or 'default': the
\* call leaves the promise and the request executeTarget leaves for that name
\* and context and changes nothing else; and what the engine then does is the
\* execution of that name.
C25_RunArgs ==
    /\ [][RunArgsStep =>
             /\ \E context \in Contexts :
                   call' = [Idle EXCEPT !.pc = "emitBuildStarted",
                                        !.arg = Str(LaunchName),
                                        !.ctx = context, !.st = "pending"]
             /\ UNCHANGED <<targets, listeners, nodes, emitted, calls, options,
                            supplied, argv, stdout, fs, other>>]_vars
    /\ [](proc.op = "runArgs" =>
             /\ call.arg = Str(LaunchName)
             /\ nodes # NoNodes =>
                   /\ CopiesIn(Event("buildStarted", LaunchName, NoErr), emitted) = 1
                   /\ LaunchName \notin DOMAIN targets =>
                         nodes[<<>>].err = DoesNotExistError(LaunchName)
             /\ call.pc = "settled" =>
                   \/ call.st = "resolved" /\ LaunchName \in DOMAIN targets
                        /\ CopiesIn(Event("buildComplete", LaunchName, NoErr), emitted) = 1
                   \/ call.st = "rejected"
                        /\ CopiesIn(Event("buildFailed", LaunchName, call.err), emitted) = 1)

\* The script was launched without arguments and runArgs was called: the
\* target default, a name for the serial array all, was executed and the
\* build is complete.
C25_Witness ==
    /\ proc.op = "runArgs"
    /\ argv = <<"node", "build.js">>
    /\ call.arg = Str("default")
    /\ call.pc = "settled" /\ call.st = "resolved"
    /\ nodes[<<>>].kind = "serial"
    /\ \A p \in Runners : nodes[p].tname = "a" /\ nodes[p].pc = "done"
    /\ CopiesIn(Event("buildComplete", "default", NoErr), emitted) = 1

-----------------------------------------------------------------------------
(* C28 *)

\* mkdirp(path) has resolved and the rmrf(path) called next has resolved.
RoundTrip ==
    /\ proc.op = "rmrf" /\ proc.pc = "settled" /\ proc.st = "resolved"
    /\ proc.prev.op = "mkdirp" /\ proc.prev.st = "resolved"
    /\ proc.prev.arg = proc.arg

\* C28 as claimed: after mkdirp(path) and then rmrf(path), path having been
\* absent, the file system is what it was before mkdirp; and rmrf of a path
\* that is absent succeeds.
C28_RoundTrip ==
    /\ RoundTrip /\ proc.arg \notin proc.prev.before => fs = proc.prev.before
    /\ proc.op = "rmrf" /\ proc.pc = "settled" /\ proc.arg \notin proc.before =>
          proc.st = "resolved"

\* C28, amended: after mkdirp(path) and then rmrf(path) the path and what
\* was below it are absent, everything else that existed still exists, and
\* the directories above path that mkdirp had to make remain; so the file
\* system is what it was before mkdirp exactly when path was absent and
\* every directory above it existed.  rmrf of a path that is absent succeeds
\* and changes nothing.
C28_RoundTripAmended ==
    /\ RoundTrip =>
          LET path == proc.arg
              was == proc.prev.before
              above == {p \in Paths : IsPrefix(p, path) /\ p # path}
          IN  /\ \A d \in fs : ~IsPrefix(path, d)
              /\ fs = {d \in was : ~IsPrefix(path, d)} \cup above
              /\ fs = was <=> path \notin was /\ above \subseteq was
    /\ proc.op = "rmrf" /\ proc.pc = "settled" /\ proc.arg \notin proc.before =>
          proc.st = "resolved" /\ fs = proc.before

\* In an empty working directory mkdirp('mkdirp_test/test1') and then
\* rmrf('mkdirp_test/test1') have resolved: mkdirp_test is left.
C28_Witness ==
    /\ RoundTrip
    /\ proc.arg = <<"mkdirp_test", "test1">>
    /\ proc.prev.before = {}
    /\ fs = {<<"mkdirp_test">>}

-----------------------------------------------------------------------------
(* C29 *)

\* The name at the end of the names that lead on from the name n.
RECURSIVE LastName(_)
LastName(n) ==
    IF Lookup(targets, n).k = "string" THEN LastName(Lookup(targets, n).n) ELSE n

\* The reporting name of the execution at p, step by step: where a name is
\* met, the last name resolved from it; where anything else is met, the
\* reporting name of the array it is an element of.
ReportingName(p) ==
    IF Origin(p).k = "string" THEN LastName(Origin(p).n)
    ELSE nodes[Parent(p)].tname

\* C29: the reporting name of an execution is the nearest enclosing named
\* target.  A name met on the path replaces it (by the name most recently
\* resolved through the registry); an array hands its own reporting name to
\* each element that is not a name; and the target-level events of a callback
\* carry the reporting name it was reached with.
C29_ReportingName ==
    \A p \in DOMAIN nodes :
        /\ nodes[p].tname = ReportingName(p)
        /\ nodes[p].kind = "runner" =>
              \A x \in TargetEvents :
                  Has(nodes[p].hist, x) =>
                      CopiesIn(Event(x, ReportingName(p),
                                     IF x = "targetExecutionFailed"
                                     THEN nodes[p].outErr ELSE NoErr), emitted) >= 1

\* executeTarget('mix'), mix: [true, ['a', fnB], fnC]: in the parallel array
\* the callback of a has completed under the name a and fnB under the name
\* mix, and fnC has been started under the name mix.
C29_Witness ==
    /\ call.arg = Str("mix")
    /\ {<<1, 0>>, <<1, 1>>, <<2>>} \subseteq DOMAIN nodes
    /\ nodes[<<1, 0>>].tname = "a"
    /\ nodes[<<1, 1>>].tname = "mix"
    /\ nodes[<<2>>].tname = "mix"
    /\ Has(nodes[<<1, 0>>].hist, "targetExecutionCompleted")
    /\ Has(nodes[<<1, 1>>].hist, "targetExecutionCompleted")
    /\ Has(nodes[<<2>>].hist, "targetExecutionStarted")
    /\ CopiesIn(Event("targetExecutionCompleted", "mix", NoErr), emitted) = 1
    /\ CopiesIn(Event("targetExecutionStarted", "mix", NoErr), emitted) = 2

-----------------------------------------------------------------------------
(* C30 *)

\* The callbacks among the elements of the array at p that were called and
\* failed.
FailedElements(p) ==
    {c \in ChildrenOf(nodes, p) :
        nodes[c].kind = "runner" /\ Invoked(c) /\ nodes[c].out = "rejected"}

\* The buildFailed events emitted.
BuildFailures ==
    {e \in BagToSet(emitted) : e.kind = "buildFailed"}

\* C30: when several callbacks of a parallel array fail, each of them emits
\* its own targetExecutionFailed, with its own error; the array rejects, with
\* the error of the failing element that rejected first (the error of a
\* failed callback, or that of an element that failed otherwise); and when
\* the array is the requested target the caller gets the error of one of the
\* failing elements and exactly one buildFailed is emitted, which carries it.
C30_ParallelFailures ==
    \A p \in DOMAIN nodes :
        /\ nodes[p].kind = "parallel"
        /\ Cardinality(FailedElements(p)) >= 2
        /\ Terminal
        => LET errors == {nodes[c].outErr : c \in FailedElements(p)} \cup
                         {nodes[c].err : c \in {d \in ChildrenOf(nodes, p) :
                                                  /\ nodes[d].kind # "runner"
                                                  /\ nodes[d].st = "rejected"}}
           IN  /\ \A c \in FailedElements(p) :
                     /\ Has(nodes[c].hist, "targetExecutionFailed")
                     /\ CopiesIn(Event("targetExecutionFailed", nodes[c].tname,
                                       ActionError(c)), emitted) >= 1
               /\ nodes[p].st = "rejected"
               /\ nodes[p].fr # -1
               /\ nodes[p].err = nodes[Append(p, nodes[p].fr)].err
               /\ nodes[p].err \in errors
               /\ p = <<>> =>
                     /\ call.st = "rejected"
                     /\ call.err \in errors
                     /\ BuildFailures = {Event("buildFailed", call.arg.n, call.err)}
                     /\ CopiesIn(Event("buildFailed", call.arg.n, call.err), emitted) = 1

\* What remains of C30 when no listener throws.
C30_ParallelFailuresQuiet == QuietListeners => C30_ParallelFailures

-----------------------------------------------------------------------------
(* The builder of TreeRegistry *)

InitTrees ==
    /\ targets = TreeRegistry
    /\ listeners \in ListenerSetups
    /\ call = Idle
    /\ nodes = NoNodes
    /\ emitted = EmptyBag
    /\ calls = EmptyBag
    /\ DefaultEnv

SpecTrees == InitTrees /\ [][Next]_vars

-----------------------------------------------------------------------------
(* C31 *)

\* The callbacks that return nothing.
Returning == {p \in Runners : nodes[p].target = Fn("fnReturn")}

\* C31: a callback that returns a value that is no promise, without throwing,
\* has completed: its chain takes the fulfilment handler, emits
\* targetExecutionCompleted and resolves (unless a listener of that event
\* throws), and what encloses it goes on as after a resolved promise: the
\* serial chain starts the next element, executeTarget emits buildComplete.
C31_NonPromiseReturn ==
    \A p \in Returning :
        /\ Invoked(p) =>
              /\ nodes[p].pc \in {"handler", "done"}
              /\ nodes[p].out = "resolved"
        /\ Invoked(p) /\ nodes[p].pc = "done" =>
              /\ nodes[p].hist = <<"targetExecutionStarted", "invoke", "settled",
                                   "targetExecutionCompleted">>
              /\ CopiesIn(Event("targetExecutionCompleted", nodes[p].tname, NoErr),
                          emitted) >= 1
              /\ nodes[p].st = IF Throws("targetExecutionCompleted")
                               THEN "rejected" ELSE "resolved"
        /\ Terminal /\ nodes[p].st = "resolved" =>
              IF p = <<>>
              THEN Has(call.hist, "buildComplete")
              ELSE IsSerialArray(nodes[Parent(p)].target)
                   /\ Last(p) + 1 < Length(nodes[Parent(p)].target) =>
                      Last(p) + 1 \in Started(Parent(p))

\* The serial array [true, 'ret', 'a'] at its end: the callback of ret
\* returned nothing, was reported completed, and the callback of a ran after
\* it.
C31_Witness ==
    /\ call.arg = Str("rets")
    /\ Terminal
    /\ <<1>> \in Returning
    /\ nodes[<<1>>].hist = <<"targetExecutionStarted", "invoke", "settled",
                             "targetExecutionCompleted">>
    /\ nodes[<<1>>].st = "resolved"
    /\ <<2>> \in Runners /\ Invoked(<<2>>)
    /\ call.st = "resolved"

-----------------------------------------------------------------------------
(* C32 *)

\* The listeners registered for a kind.
Registered(kind) == {listeners[kind][i] : i \in DOMAIN listeners[kind]}

\* The sequence h without its element i.
Without(h, i) == SubSeq(h, 1, i - 1) \o SubSeq(h, i + 1, Len(h))

\* The deliveries of this step: the listener calls it adds.
Delivered == BagToSet(calls' (-) calls)

\* No listener is registered for any kind.
NoListeners == \A k \in EventKinds : listeners[k] = <<>>

\* A step delivers only to listeners registered for the kind when it is
\* taken, and to each of them that no throwing listener stands before.
DeliveryStep ==
    /\ \A r \in Delivered : r.listener \in Registered(r.event.kind)
    /\ \A e \in BagToSet(emitted' (-) emitted) : \A l \in Called(e.kind) :
          [listener |-> l, event |-> e] \in Delivered

\* A step changes the listeners of a kind by adding one at the end, by
\* taking one away, which leaves the others of the kind registered in their
\* order, or by taking away every listener of every kind.
RemovalStep ==
    \A k \in EventKinds :
        listeners'[k] # listeners[k] =>
            \/ \E l \in ListenerFunctions : listeners'[k] = Append(listeners[k], l)
            \/ \E i \in DOMAIN listeners[k] : listeners'[k] = Without(listeners[k], i)
            \/ NoListeners'

\* C32: a listener that was removed (by removeListener for its kind, or with
\* all others by removeAllListeners) is called for no later emission, the
\* listeners removeListener did not name stay registered and keep being
\* called, and an execution goes on and settles with no listener registered.
C32_Removal ==
    /\ [][DeliveryStep /\ RemovalStep]_vars
    /\ [](NoListeners /\ Terminal /\ call.pc # "idle" => call.pc = "settled")

\* The listener registered at construction was removed from
\* targetExecutionStarted and another one added: the started events went to
\* the new one only.  Then all listeners were removed: the execution settled
\* and its buildComplete was delivered to nobody.
C32_Witness ==
    /\ NoListeners
    /\ call.pc = "settled" /\ call.st = "resolved"
    /\ \E r \in BagToSet(calls) :
          r.listener = "other" /\ r.event.kind = "targetExecutionStarted"
    /\ \A r \in BagToSet(calls) :
          ~(r.listener = "returns" /\ r.event.kind = "targetExecutionStarted")
    /\ \A r \in BagToSet(calls) : r.event.kind # "buildComplete"
    /\ \E e \in BagToSet(emitted) : e.kind = "buildComplete"

-----------------------------------------------------------------------------
(* C33 *)

\* A reaction of a promise of the engine: the job the promise queues when
\* the promise before it settles.
Reaction ==
    \E p \in DOMAIN nodes :
        \/ RunnerStarted(p)
        \/ RunnerInvoke(p)
        \/ RunnerSettled(p)
        \/ SerialNext(p)
        \/ ParallelSettled(p)

\* The promise some started callback returned settles.
SomeActionSettles == \E p \in DOMAIN nodes : ActionSettle(p)

\* The job queue runs every reaction that is ready, and (the hypothesis of
\* C33) every promise a callback returned settles.  Nothing obliges a caller
\* to call executeTarget.
Fairness ==
    /\ WF_vars(BuildStarted)
    /\ WF_vars(BuildExecute)
    /\ WF_vars(BuildSettled)
    /\ WF_vars(Reaction)
    /\ WF_vars(SomeActionSettles)

\* The builder of TreeRegistry, whose names refer to each other without a
\* cycle, with every ready job run.
SpecLive == InitTrees /\ [][Next]_vars /\ Fairness

\* executeTarget has emitted the terminal build event of its call and the
\* promise it returned has settled.
BuildEnded ==
    /\ call.pc = "settled"
    /\ call.st \in {"resolved", "rejected"}
    /\ \/ /\ Has(call.hist, "buildComplete")
          /\ CopiesIn(Event("buildComplete", call.arg.n, NoErr), emitted) >= 1
       \/ /\ Has(call.hist, "buildFailed")
          /\ \E e \in BagToSet(emitted) :
                e.kind = "buildFailed" /\ e.targetName = call.arg.n

-----------------------------------------------------------------------------
(* C34 *)

\* How many times x stands in the history h.
Times(h, x) == Cardinality({i \in DOMAIN h : h[i] = x})

\* The runners that have handed the event x to emit with the record of p.
SameRecord(p, x) ==
    {q \in Runners : Has(nodes[q].hist, x) /\ EventOf(q, x) = EventOf(p, x)}

\* C34: callbacks are neither de-duplicated nor cached.  Every position
\* reached that holds a function, or a name bound to one, has a chain of its
\* own; each chain calls its callback once (never, if a listener of
\* targetExecutionStarted threw) and emits its own started event and its own
\* completed or failed event, so a name reached k times has its callback
\* called k times and k pairs of events.
C34_NoDeduplication ==
    /\ \A p \in DOMAIN nodes :
          LET v == Origin(p)
              f == IF v.k = "string" THEN Lookup(targets, v.n) ELSE v
          IN  f.k = "function" =>
                 /\ nodes[p].kind = "runner"
                 /\ nodes[p].target = f
    /\ \A p \in Runners :
          LET h == nodes[p].hist
          IN  /\ Times(h, "invoke") <= 1
              /\ Times(h, "targetExecutionStarted") <= 1
              /\ Times(h, "targetExecutionCompleted")
                    + Times(h, "targetExecutionFailed") <= 1
              /\ nodes[p].pc = "done" =>
                    /\ h[1] = "targetExecutionStarted"
                    /\ ~Throws("targetExecutionStarted") =>
                          /\ Times(h, "invoke") = 1
                          /\ Times(h, "targetExecutionCompleted")
                                + Times(h, "targetExecutionFailed") = 1
              /\ \A x \in TargetEvents :
                    Has(h, x) =>
                        CopiesIn(EventOf(p, x), emitted) = Cardinality(SameRecord(p, x))

\* The serial array [true, 'a', 'a'] at its end: the callback of a was called
\* for each of the two occurrences, and two started and two completed events
\* were emitted for a.
C34_Witness ==
    /\ call.arg = Str("dup")
    /\ Terminal
    /\ {<<1>>, <<2>>} \subseteq Runners
    /\ Invoked(<<1>>) /\ Invoked(<<2>>)
    /\ nodes[<<1>>].target = nodes[<<2>>].target
    /\ CopiesIn(Event("targetExecutionStarted", "a", NoErr), emitted) = 2
    /\ CopiesIn(Event("targetExecutionCompleted", "a", NoErr), emitted) = 2

-----------------------------------------------------------------------------
(* C35 *)

\* C35: when buildComplete is emitted every callback the call started has
\* emitted its targetExecutionCompleted, as the last thing it did; and from
\* then on nothing of the call is left to run: no callback is called and no
\* target-level event is emitted after buildComplete.
C35_CompleteIsLast ==
    call.pc # "idle" /\ Has(call.hist, "buildComplete") =>
        /\ \A p \in Runners :
              /\ nodes[p].pc = "done"
              /\ Invoked(p)
              /\ Last(nodes[p].hist) = "targetExecutionCompleted"
              /\ CopiesIn(EventOf(p, "targetExecutionCompleted"), emitted) >= 1
        /\ Last(call.hist) = "buildComplete"
        /\ Terminal

\* The parallel array ['ret', 'a'] reported complete: both callbacks were
\* called and had emitted targetExecutionCompleted.
C35_Witness ==
    /\ call.arg = Str("pret")
    /\ Has(call.hist, "buildComplete")
    /\ Runners = {<<0>>, <<1>>}
    /\ \A p \in Runners : Has(nodes[p].hist, "targetExecutionCompleted")

-----------------------------------------------------------------------------
(* C36 *)

\* The positions whose value cannot be executed: a name bound to nothing
\* (the promise keeps the name) or a value of an unsupported type.
Offending ==
    {p \in DOMAIN nodes : nodes[p].target.k \in {"string", "number", "object"}}

\* The error the engine makes for the value at an offending position.
Offence(p) ==
    IF nodes[p].target.k = "string"
    THEN DoesNotExistError(nodes[p].target.n)
    ELSE UnsupportedError(nodes[p].target)

\* The call failed and the one thing that went wrong is an offending
\* position: no callback failed and no listener threw.
OnlyOffences ==
    /\ call.pc = "settled" /\ call.st = "rejected"
    /\ nodes # NoNodes
    /\ QuietListeners
    /\ \A q \in Runners : nodes[q].out # "rejected"

\* C36: a missing name and a value of an unsupported type give a promise
\* that is rejected as it is made, with no chain around it: no
\* targetExecutionStarted and no targetExecutionFailed is emitted for it
\* (every target-level event emitted is one of a callback's chain), a
\* serial array starts nothing after it, and a call that fails for this
\* reason alone emits buildFailed with the error of such a position.
C36_NoTargetEvent ==
    /\ \A p \in Offending :
          /\ nodes[p].kind = "settled" /\ nodes[p].st = "rejected"
          /\ nodes[p].err = Offence(p)
          /\ nodes[p].hist = <<>>
          /\ \A x \in TargetEvents :
                CopiesIn(Event(x, nodes[p].tname, Offence(p)), emitted) = 0
          /\ p # <<>> /\ IsSerialArray(nodes[Parent(p)].target) =>
                \A i \in Started(Parent(p)) : i <= Last(p)
    /\ \A e \in BagToSet(emitted) :
          e.kind \in TargetEvents =>
              \E q \in Runners : Has(nodes[q].hist, e.kind) /\ EventOf(q, e.kind) = e
    /\ OnlyOffences =>
          \E p \in Offending :
              /\ call.err = Offence(p)
              /\ CopiesIn(Event("buildFailed", call.arg.n, Offence(p)), emitted) = 1

\* The serial array [true, 42, 'a'] has failed: buildFailed carries the
\* error of the number, no target-level event was emitted and the callback
\* of a was never started.
C36_Witness ==
    /\ call.arg = Str("odd")
    /\ OnlyOffences
    /\ <<1>> \in Offending
    /\ <<2>> \notin DOMAIN nodes
    /\ CopiesIn(Event("buildFailed", "odd", UnsupportedError(Num("42"))), emitted) = 1
    /\ \A e \in BagToSet(emitted) : e.kind \notin TargetEvents

-----------------------------------------------------------------------------
(* C37 *)

\* executeTarget has returned a promise rejected with 'Target name is
\* expected to be a string.' and has done nothing else.
RejectedAtOnce ==
    /\ call.pc = "settled"
    /\ call.st = "rejected"
    /\ call.err = NotAStringError
    /\ call.hist = <<>>
    /\ nodes = NoNodes
    /\ emitted = EmptyBag
    /\ calls = EmptyBag

\* The positions inside an array that hold the empty string.
EmptyNames == {p \in DOMAIN nodes : p # <<>> /\ Origin(p) = Str("")}

\* C37: executeTarget('') is rejected like executeTarget of a value that is
\* no string, with the same error and without any event; the empty string
\* as an element of an array is a name like any other: it is looked up, and
\* being bound to nothing it gives a promise rejected with
\* 'Target does not exist: '.
C37_EmptyName ==
    /\ call.pc # "idle" /\ (call.arg = Str("") \/ call.arg \in NonStrings) =>
          RejectedAtOnce
    /\ \A p \in EmptyNames :
          /\ nodes[p].kind = "settled"
          /\ nodes[p].st = "rejected"
          /\ nodes[p].err = DoesNotExistError("")
          /\ nodes[p].err # NotAStringError

\* executeTarget('') has returned.
C37_Witness ==
    /\ call.arg = Str("")
    /\ RejectedAtOnce

\* The serial array [true, '', 'a'] has failed with 'Target does not exist: '.
C37_InsideArray ==
    /\ call.arg = Str("emp")
    /\ call.pc = "settled"
    /\ <<1>> \in EmptyNames
    /\ CopiesIn(Event("buildFailed", "emp", DoesNotExistError("")), emitted) = 1

-----------------------------------------------------------------------------
(* Two executeTarget calls in flight on one builder *)

\* The job queue turns from the reactions of one call to those of the other
\* one (or the caller makes the second call): the call the engine's actions
\* work on and the call set aside change places.  The registry, the
\* listeners and what has been emitted belong to the builder and stay.
Switch ==
    /\ call.pc # "idle" \/ other.call.pc # "idle"
    /\ call' = other.call
    /\ nodes' = other.nodes
    /\ other' = [call |-> call, nodes |-> nodes]
    /\ UNCHANGED <<targets, listeners, emitted, calls, options, supplied, argv,
                   stdout, fs, proc>>

InitPair ==
    /\ targets = PairRegistry
    /\ listeners \in ListenerSetups
    /\ call = Idle
    /\ nodes = NoNodes
    /\ emitted = EmptyBag
    /\ calls = EmptyBag
    /\ DefaultEnv

NextPair ==
    \/ Next
    \/ Switch

SpecPair == InitPair /\ [][NextPair]_vars

-----------------------------------------------------------------------------
(* C38 *)

\* The outcome the last reaction of executeTarget got for the call c with
\* the promises ns: that of buildStarted's reaction if a listener threw
\* there, that of the promise executeAnyTarget returned otherwise.
UpstreamOf(c, ns) ==
    IF c.up = "rejected" THEN [st |-> "rejected", err |-> c.upErr]
    ELSE [st |-> ns[<<>>].st, err |-> ns[<<>>].err]

\* Whether the call c, with the promises ns, is one for the name n that has
\* emitted the build event x (with the error err, for buildFailed): 1 or 0.
Emitter(c, ns, x, n, err) ==
    IF /\ c.pc # "idle" /\ c.arg = Str(n)
       /\ Has(c.hist, x)
       /\ x = "buildFailed" => UpstreamOf(c, ns).err = err
    THEN 1 ELSE 0

\* How many of the two calls made on the builder have emitted that event.
Emitters(x, n, err) ==
    Emitter(call, nodes, x, n, err) + Emitter(other.call, other.nodes, x, n, err)

\* C38: of two executeTarget calls in flight together on one builder each
\* emits its own buildStarted and its own single terminal build event, each
\* settles as its own tree of promises and the listeners make it settle,
\* whatever has become of the other one, and none is left unsettled when
\* nothing remains to run.  The formula speaks of the call the engine is
\* working on; Switch makes each of the two that call in turn, in every
\* interleaving of their reactions.
C38_Independent ==
    LET h == call.hist
        ends == Times(h, "buildComplete") + Times(h, "buildFailed")
        up == UpstreamOf(call, nodes)
    IN  /\ Times(h, "buildStarted") <= 1 /\ ends <= 1
        /\ ends = 1 => h[1] = "buildStarted"
        /\ call.pc = "settled" /\ IsTargetName(call.arg) =>
              /\ Times(h, "buildStarted") = 1 /\ ends = 1
              /\ call.st = IF up.st = "resolved" /\ ~Throws("buildComplete")
                           THEN "resolved" ELSE "rejected"
              /\ call.err = IF up.st = "resolved"
                            THEN IF Throws("buildComplete")
                                 THEN ListenerError("buildComplete") ELSE NoErr
                            ELSE IF Throws("buildFailed")
                                 THEN ListenerError("buildFailed") ELSE up.err
              /\ Has(h, "buildComplete") <=> up.st = "resolved"
              /\ CopiesIn(Event(Last(h), call.arg.n,
                                IF Last(h) = "buildFailed" THEN up.err ELSE NoErr),
                          emitted)
                    = Emitters(Last(h), call.arg.n,
                               IF Last(h) = "buildFailed" THEN up.err ELSE NoErr)
        /\ Has(h, "buildStarted") =>
              CopiesIn(Event("buildStarted", call.arg.n, NoErr), emitted)
                 = Emitters("buildStarted", call.arg.n, NoErr)
        /\ \A p \in Runners :
              nodes[p].pc = "done" =>
                  (nodes[p].st = "resolved" <=>
                      nodes[p].out = "resolved" /\ ~Throws("targetExecutionCompleted"))
        /\ Terminal /\ call.pc # "idle" => call.pc = "settled"

\* Two calls in flight: the callback of thr has thrown and its call has not
\* reported the failure yet, while the callback of a has returned a promise
\* that has not settled.
C38_Witness ==
    /\ call.arg = Str("a") /\ call.pc = "await"
    /\ nodes[<<>>].pc = "running"
    /\ other.call.arg = Str("thr") /\ other.call.pc = "await"
    /\ other.nodes[<<>>].st = "rejected"

\* Both calls have ended: the one for thr failed, the one for the array
\* two resolved.
C38_BothEnded ==
    /\ call.arg = Str("two") /\ call.pc = "settled" /\ call.st = "resolved"
    /\ other.call.arg = Str("thr") /\ other.call.pc = "settled"
    /\ other.call.st = "rejected"
    /\ CopiesIn(Event("buildComplete", "two", NoErr), emitted) = 1
    /\ CopiesIn(Event("buildFailed", "thr", ActionError(<<>>)), emitted) = 1

====
